---------------------------- MODULE Spec2Model ----------------------------
(***************************************************************************)
(* Klondike solitaire rule engine of Solitaire_ts: cards, card stacks,     *)
(* the game-state object, the game logic (validation, draw/recycle, moves, *)
(* auto-complete) and the controller commands that drive them.             *)
(*                                                                         *)
(* A Card object is identified by its number; its mutable fields live in   *)
(* the heap `cards`, so that one Card object referenced from two stack     *)
(* arrays shares its faceUp / currentStack / stackIndex / isDraggable.     *)
(* Rendering, animation, timers, score and elapsed time are not modelled.  *)
(***************************************************************************)
EXTENDS Integers, Sequences, FiniteSets, TLC

VARIABLES
    stacks,        \* CardStack.cards of the 13 stacks, bottom to top
    cards,         \* the Card objects' mutable fields
    gameState,     \* GameState fields
    settings,      \* GameState.settings
    inputEnabled,  \* InputHandler.enabled
    victoryPending,\* number of onGameComplete handlers awaiting the animation
    ret,           \* the last command or query: its name, arguments and result
    steps,         \* number of commands issued so far
    dealt          \* the stack arrays as they were when the game started

vars == <<stacks, cards, gameState, settings, inputEnabled, victoryPending, ret, steps,
          dealt>>

---------------------------------------------------------------------------
(* Program constants *)

FOUNDATION_PILES == 4
TABLEAU_COLUMNS == 7
CARDS_PER_SUIT == 13
TOTAL_CARDS == 52
maxHistorySize == 100

SUITS == <<"hearts", "diamonds", "clubs", "spades">>
RANKS == <<"A", "2", "3", "4", "5", "6", "7", "8", "9", "10", "J", "Q", "K">>

(* Bounds of the model *)
MaxSteps == 3

---------------------------------------------------------------------------
(* Generic sequence helpers (Array.prototype methods used by the code) *)

Range(seq) == {seq[i] : i \in 1..Len(seq)}

\* Array.indexOf, 1-based; 0 when absent
IndexOf(seq, x) ==
    IF \E i \in 1..Len(seq) : seq[i] = x
    THEN CHOOSE i \in 1..Len(seq) : seq[i] = x /\ \A j \in 1..(i-1) : seq[j] # x
    ELSE 0

\* Array.splice(i, 1), 1-based
RemoveAt(seq, i) == SubSeq(seq, 1, i - 1) \o SubSeq(seq, i + 1, Len(seq))

\* Array.reverse
RECURSIVE Reverse(_)
Reverse(seq) == IF seq = <<>> THEN <<>> ELSE Append(Reverse(Tail(seq)), Head(seq))

Min(a, b) == IF a < b THEN a ELSE b
Max(a, b) == IF a > b THEN a ELSE b

---------------------------------------------------------------------------
(* Card *)

\* A Card object is numbered by its place in Deck.createDeck: suit by suit, rank by rank
CardIds == 1..TOTAL_CARDS
suit(c) == SUITS[((c - 1) \div CARDS_PER_SUIT) + 1]
rank(c) == RANKS[((c - 1) % CARDS_PER_SUIT) + 1]

\* parseInt on the ranks "2".."10"
parseInt(str) ==
    CASE str = "2" -> 2 [] str = "3" -> 3 [] str = "4" -> 4 [] str = "5" -> 5
      [] str = "6" -> 6 [] str = "7" -> 7 [] str = "8" -> 8 [] str = "9" -> 9
      [] str = "10" -> 10

getValue(c) ==
    IF rank(c) = "A" THEN 1
    ELSE IF rank(c) = "J" THEN 11
    ELSE IF rank(c) = "Q" THEN 12
    ELSE IF rank(c) = "K" THEN 13
    ELSE parseInt(rank(c))

isRed(c) == suit(c) = "hearts" \/ suit(c) = "diamonds"

\* `${rank}_${suit}`
toString(c) == <<rank(c), suit(c)>>

NewCard == [faceUp |-> FALSE, isDraggable |-> FALSE, currentStack |-> 0, stackIndex |-> -1]

---------------------------------------------------------------------------
(* CardStack: the 13 stacks in getAllStacks order *)

Stock == 1
Waste == 2
Foundations == <<3, 4, 5, 6>>
Tableaus == <<7, 8, 9, 10, 11, 12, 13>>
StackIds == 1..(2 + FOUNDATION_PILES + TABLEAU_COLUMNS)
AllStacks == <<Stock, Waste>> \o Foundations \o Tableaus
FoundationIds == Range(Foundations)
TableauIds == Range(Tableaus)

StackType(s) ==
    IF s = Stock THEN "stock"
    ELSE IF s = Waste THEN "waste"
    ELSE IF s \in FoundationIds THEN "foundation"
    ELSE "tableau"

\* CardStack.index
StackIndex(s) ==
    IF s \in FoundationIds THEN s - 3
    ELSE IF s \in TableauIds THEN s - 7
    ELSE 0

\* a world: the stack arrays, the card objects and the game-state object
World(st, cd, gs) == [stacks |-> st, cards |-> cd, gs |-> gs]

getTopCardOf(seq) == seq[Len(seq)]
isEmpty(w, s) == Len(w.stacks[s]) = 0
getCardCount(w, s) == Len(w.stacks[s])
\* getTopCard of a non-empty stack
getTopCard(w, s) == w.stacks[s][Len(w.stacks[s])]

\* updateCardDraggable: the flag a card of stack s gets, given the stack array
DraggableIn(s, seq, cd, c) ==
    IF StackType(s) = "stock" THEN FALSE
    ELSE Len(seq) > 0 /\ seq[Len(seq)] = c /\ cd[c].faceUp

\* updateAllCardsDraggable: forEach card of the array, from position i on
RECURSIVE draggableFrom(_, _, _, _)
draggableFrom(s, seq, cd, i) ==
    IF i > Len(seq) THEN cd
    ELSE draggableFrom(s, seq,
                       [cd EXCEPT ![seq[i]].isDraggable = DraggableIn(s, seq, cd, seq[i])],
                       i + 1)

updateAllCardsDraggable(s, seq, cd) == draggableFrom(s, seq, cd, 1)

\* updateAllCardPositions: forEach card of the array, from position i on;
\* updateCardPosition sets stackIndex = indexOf(card)
RECURSIVE positionsFrom(_, _, _)
positionsFrom(seq, cd, i) ==
    IF i > Len(seq) THEN cd
    ELSE positionsFrom(seq, [cd EXCEPT ![seq[i]].stackIndex = IndexOf(seq, seq[i]) - 1],
                       i + 1)

updateAllCardPositions(seq, cd) == positionsFrom(seq, cd, 1)

addCard(w, s, c) ==
    LET seq == Append(w.stacks[s], c)
        cd1 == [w.cards EXCEPT ![c].currentStack = s,
                               ![c].stackIndex = IndexOf(seq, c) - 1]
        cd2 == [cd1 EXCEPT ![c].isDraggable = DraggableIn(s, seq, cd1, c)]
    IN  [w EXCEPT !.stacks[s] = seq, !.cards = cd2]

removeCard(w, s, c) ==
    LET i == IndexOf(w.stacks[s], c) IN
    IF i = 0 THEN w
    ELSE
        LET seq == RemoveAt(w.stacks[s], i)
            cd1 == [w.cards EXCEPT ![c].currentStack = 0, ![c].stackIndex = -1]
            cd2 == updateAllCardPositions(seq, cd1)
            cd3 == updateAllCardsDraggable(s, seq, cd2)
        IN  [w EXCEPT !.stacks[s] = seq, !.cards = cd3]

\* Card.flip(faceUp)
flip(w, c, up) ==
    LET cd1 == [w.cards EXCEPT ![c].faceUp = up]
        s == cd1[c].currentStack
    IN  IF s # 0
        THEN [w EXCEPT !.cards = updateAllCardsDraggable(s, w.stacks[s], cd1)]
        ELSE [w EXCEPT !.cards = cd1]

\* canPlaceOnFoundation without the suit comparison
canPlaceOnFoundation_anySuit(w, s, c) ==
    IF isEmpty(w, s) THEN getValue(c) = 1
    ELSE getValue(c) = getValue(getTopCard(w, s)) + 1

\* CardStack.canAcceptCard and its two rules
canPlaceOnFoundation(w, s, c) ==
    IF isEmpty(w, s) THEN getValue(c) = 1
    ELSE LET topCard == getTopCard(w, s) IN
         suit(c) = suit(topCard) /\ getValue(c) = getValue(topCard) + 1

\* canPlaceOnTableau without the test of the top card's face
canPlaceOnTableau_anyFace(w, s, c) ==
    IF isEmpty(w, s) THEN getValue(c) = 13
    ELSE LET topCard == getTopCard(w, s) IN
         isRed(c) # isRed(topCard) /\ getValue(c) = getValue(topCard) - 1

canPlaceOnTableau(w, s, c) ==
    IF isEmpty(w, s) THEN getValue(c) = 13
    ELSE LET topCard == getTopCard(w, s) IN
         IF ~w.cards[topCard].faceUp THEN FALSE
         ELSE isRed(c) # isRed(topCard) /\ getValue(c) = getValue(topCard) - 1

canAcceptCard(w, s, c) ==
    CASE StackType(s) = "foundation" -> canPlaceOnFoundation(w, s, c)
      [] StackType(s) = "tableau" -> canPlaceOnTableau(w, s, c)
      [] StackType(s) = "waste" -> FALSE
      [] StackType(s) = "stock" -> FALSE

\* CardStack.getValidSequence on the tail of an array
RECURSIVE getValidSequence(_, _)
getValidSequence(cd, seq) ==
    IF Len(seq) <= 1 THEN seq
    ELSE LET prevCard == seq[1]
             currCard == seq[2]
         IN  IF ~cd[prevCard].faceUp \/ ~cd[currCard].faceUp THEN <<prevCard>>
             ELSE IF isRed(prevCard) = isRed(currCard) THEN <<prevCard>>
             ELSE IF getValue(prevCard) # getValue(currCard) + 1 THEN <<prevCard>>
             ELSE <<prevCard>> \o getValidSequence(cd, Tail(seq))

\* CardStack.getCardsFromIndex, startIndex 0-based
getCardsFromIndex(w, s, startIndex) ==
    IF startIndex < 0 \/ startIndex >= Len(w.stacks[s]) THEN <<>>
    ELSE LET cardsFromIndex == SubSeq(w.stacks[s], startIndex + 1, Len(w.stacks[s])) IN
         IF StackType(s) = "tableau" THEN getValidSequence(w.cards, cardsFromIndex)
         ELSE cardsFromIndex

---------------------------------------------------------------------------
(* GameState *)

NewGameState ==
    [isGameStarted |-> FALSE, isGameCompleted |-> FALSE, isPaused |-> FALSE,
     moves |-> 0, foundationCards |-> 0, moveHistory |-> <<>>,
     gamesPlayed |-> 0, gamesWon |-> 0]

\* GameState.reset: the statistics survive a reset
reset(gs) ==
    [gs EXCEPT !.isGameStarted = FALSE, !.isGameCompleted = FALSE, !.isPaused = FALSE,
               !.moves = 0, !.foundationCards = 0, !.moveHistory = <<>>]

startGame(gs) == IF gs.isGameStarted THEN gs ELSE [gs EXCEPT !.isGameStarted = TRUE]

isPlaying(gs) == gs.isGameStarted /\ ~gs.isPaused /\ ~gs.isGameCompleted

canUndo(gs) ==
    settings.allowUndo /\ Len(gs.moveHistory) > 0 /\ gs.isGameStarted /\ ~gs.isGameCompleted

\* completeGame with updateStats(true)
completeGame(gs) ==
    IF gs.isGameCompleted THEN gs
    ELSE [gs EXCEPT !.isGameCompleted = TRUE, !.isGameStarted = FALSE,
                    !.gamesPlayed = @ + 1, !.gamesWon = @ + 1]

togglePause(gs) ==
    IF ~gs.isGameStarted \/ gs.isGameCompleted THEN gs
    ELSE [gs EXCEPT !.isPaused = ~@]

\* A Move record. The optional fields of MoveData are always present here:
\* cards holds card (one entry) or cards; from/fromIndex also hold stack/stackIndex
\* of a card_flip record; absent fields are "" / 0 / <<>>.
MoveData(type, cs, from, to, fromIndex, toIndex) ==
    [type |-> type, cards |-> cs, count |-> Len(cs), from |-> from, to |-> to,
     fromIndex |-> fromIndex, toIndex |-> toIndex, moveNumber |-> 0]

\* recordMove that drops the newest record, not the oldest, from an overfull history
recordMove_dropNewest(gs, moveData) ==
    IF ~gs.isGameStarted THEN gs
    ELSE LET n == gs.moves + 1
             h == Append(gs.moveHistory, [moveData EXCEPT !.moveNumber = n])
         IN  [gs EXCEPT !.moves = n,
                        !.moveHistory = IF Len(h) > maxHistorySize
                                        THEN SubSeq(h, 1, Len(h) - 1) ELSE h]

recordMove(gs, moveData) ==
    IF ~gs.isGameStarted THEN gs
    ELSE LET n == gs.moves + 1
             h == Append(gs.moveHistory, [moveData EXCEPT !.moveNumber = n])
         IN  [gs EXCEPT !.moves = n,
                        !.moveHistory = IF Len(h) > maxHistorySize THEN Tail(h) ELSE h]

\* undoLastMove that leaves the move count as it is
undoLastMove_keepingCount(gs) ==
    IF ~settings.allowUndo \/ Len(gs.moveHistory) = 0
    THEN [gs |-> gs, ret |-> <<>>]
    ELSE [gs |-> [gs EXCEPT !.moveHistory = SubSeq(@, 1, Len(@) - 1)],
          ret |-> <<gs.moveHistory[Len(gs.moveHistory)]>>]

\* undoLastMove that takes the oldest record
undoLastMove_oldest(gs) ==
    IF ~settings.allowUndo \/ Len(gs.moveHistory) = 0
    THEN [gs |-> gs, ret |-> <<>>]
    ELSE [gs |-> [gs EXCEPT !.moveHistory = Tail(@), !.moves = Max(0, @ - 1)],
          ret |-> <<Head(gs.moveHistory)>>]

\* GameState.undoLastMove: [gs, ret]; ret is the popped record, or <<>> for null
undoLastMove(gs) ==
    IF ~settings.allowUndo \/ Len(gs.moveHistory) = 0
    THEN [gs |-> gs, ret |-> <<>>]
    ELSE LET lastMove == gs.moveHistory[Len(gs.moveHistory)] IN
         [gs |-> [gs EXCEPT !.moveHistory = SubSeq(@, 1, Len(@) - 1),
                            !.moves = Max(0, @ - 1)],
          ret |-> <<lastMove>>]

\* GameState.addToFoundation: [gs, ret]
addToFoundation(gs) ==
    LET g1 == [gs EXCEPT !.foundationCards = @ + 1] IN
    IF g1.foundationCards = TOTAL_CARDS
    THEN [gs |-> completeGame(g1), ret |-> TRUE]
    ELSE [gs |-> g1, ret |-> FALSE]

removeFromFoundation(gs) == [gs EXCEPT !.foundationCards = Max(0, @ - 1)]

---------------------------------------------------------------------------
(* GameLogic *)

canMoveToFoundation(w, c, s) ==
    LET foundationCards == w.stacks[s] IN
    IF Len(foundationCards) = 0 THEN getValue(c) = 1
    ELSE LET topCard == foundationCards[Len(foundationCards)] IN
         suit(c) = suit(topCard) /\ getValue(c) = getValue(topCard) + 1

\* canMoveToTableau that lets any card onto an empty column
canMoveToTableau_anyOnEmpty(w, c, s) ==
    LET tableauCards == w.stacks[s] IN
    IF Len(tableauCards) = 0 THEN TRUE
    ELSE LET topCard == tableauCards[Len(tableauCards)] IN
         IF ~w.cards[topCard].faceUp THEN FALSE
         ELSE isRed(c) # isRed(topCard) /\ getValue(c) = getValue(topCard) - 1

canMoveToTableau(w, c, s) ==
    LET tableauCards == w.stacks[s] IN
    IF Len(tableauCards) = 0 THEN getValue(c) = 13
    ELSE LET topCard == tableauCards[Len(tableauCards)] IN
         IF ~w.cards[topCard].faceUp THEN FALSE
         ELSE isRed(c) # isRed(topCard) /\ getValue(c) = getValue(topCard) - 1

\* validateMove without the isPlaying test
validateMove_anyTime(w, c, from, to) ==
    IF ~w.cards[c].faceUp THEN FALSE
    ELSE CASE StackType(to) = "foundation" -> canMoveToFoundation(w, c, to)
           [] StackType(to) = "tableau" -> canMoveToTableau(w, c, to)
           [] StackType(to) = "waste" -> FALSE
           [] StackType(to) = "stock" -> FALSE

validateMove(w, c, from, to) ==
    IF ~isPlaying(w.gs) THEN FALSE
    ELSE IF ~w.cards[c].faceUp THEN FALSE
    ELSE CASE StackType(to) = "foundation" -> canMoveToFoundation(w, c, to)
           [] StackType(to) = "tableau" -> canMoveToTableau(w, c, to)
           [] StackType(to) = "waste" -> FALSE
           [] StackType(to) = "stock" -> FALSE

\* areCardsSequential without the colour comparison
areCardsSequential_anyColor(w, cs) ==
    IF Len(cs) <= 1 THEN TRUE
    ELSE \A i \in 2..Len(cs) :
            /\ w.cards[cs[i-1]].faceUp /\ w.cards[cs[i]].faceUp
            /\ getValue(cs[i-1]) = getValue(cs[i]) + 1

areCardsSequential(w, cs) ==
    IF Len(cs) <= 1 THEN TRUE
    ELSE \A i \in 2..Len(cs) :
            LET prevCard == cs[i-1]
                currCard == cs[i]
            IN  /\ w.cards[prevCard].faceUp /\ w.cards[currCard].faceUp
                /\ isRed(prevCard) # isRed(currCard)
                /\ getValue(prevCard) = getValue(currCard) + 1

validateMultiCardMove(w, cs, from, to) ==
    IF Len(cs) = 0 THEN FALSE
    ELSE IF StackType(from) # "tableau" THEN FALSE
    ELSE IF ~areCardsSequential(w, cs) THEN FALSE
    ELSE validateMove(w, cs[1], from, to)

\* the draw loop of drawFromStock: n iterations left, drawn so far
RECURSIVE drawLoop(_, _, _)
drawLoop(w, n, drawnCards) ==
    IF n = 0 THEN [w |-> w, ret |-> drawnCards]
    ELSE IF isEmpty(w, Stock) THEN drawLoop(w, n - 1, drawnCards)
    ELSE LET card == getTopCard(w, Stock)
             w1 == removeCard(w, Stock, card)
             w2 == flip(w1, card, TRUE)
             w3 == addCard(w2, Waste, card)
         IN  drawLoop(w3, n - 1, Append(drawnCards, card))

\* the forEach of recycleWasteToStock over the reversed waste array
RECURSIVE recycleLoop(_, _)
recycleLoop(w, cs) ==
    IF cs = <<>> THEN w
    ELSE LET card == Head(cs)
             w1 == removeCard(w, Waste, card)
             w2 == flip(w1, card, FALSE)
             w3 == addCard(w2, Stock, card)
         IN  recycleLoop(w3, Tail(cs))

\* recycleLoop without card.flip(false)
RECURSIVE recycleLoop_faceUp(_, _)
recycleLoop_faceUp(w, cs) ==
    IF cs = <<>> THEN w
    ELSE recycleLoop_faceUp(addCard(removeCard(w, Waste, Head(cs)), Stock, Head(cs)),
                            Tail(cs))

\* recycleWasteToStock that leaves the recycled cards face-up
recycleWasteToStock_faceUp(w) ==
    IF isEmpty(w, Waste) THEN [w |-> w, ret |-> <<>>]
    ELSE LET cs == Reverse(w.stacks[Waste])
             w1 == recycleLoop_faceUp(w, cs)
             md == [MoveData("waste_to_stock", <<>>, "", "", 0, 0) EXCEPT !.count = Len(cs)]
         IN  [w |-> [w1 EXCEPT !.gs = recordMove(w1.gs, md)], ret |-> cs]

\* recycleWasteToStock that leaves the waste where it is
recycleWasteToStock_none(w) == [w |-> w, ret |-> <<>>]

\* recycleWasteToStock without the reverse
recycleWasteToStock_unreversed(w) ==
    IF isEmpty(w, Waste) THEN [w |-> w, ret |-> <<>>]
    ELSE LET cs == w.stacks[Waste]
             w1 == recycleLoop(w, cs)
             md == [MoveData("waste_to_stock", <<>>, "", "", 0, 0) EXCEPT !.count = Len(cs)]
         IN  [w |-> [w1 EXCEPT !.gs = recordMove(w1.gs, md)], ret |-> cs]

\* recycleWasteToStock that records its move before looking at the waste
recycleWasteToStock_recordingEmpty(w) ==
    LET cs == Reverse(w.stacks[Waste])
        w1 == recycleLoop(w, cs)
        md == [MoveData("waste_to_stock", <<>>, "", "", 0, 0) EXCEPT !.count = Len(cs)]
    IN  [w |-> [w1 EXCEPT !.gs = recordMove(w1.gs, md)], ret |-> cs]

recycleWasteToStock(w) ==
    IF isEmpty(w, Waste) THEN [w |-> w, ret |-> <<>>]
    ELSE LET cs == Reverse(w.stacks[Waste])
             w1 == recycleLoop(w, cs)
             md == [MoveData("waste_to_stock", <<>>, "", "", 0, 0) EXCEPT !.count = Len(cs)]
         IN  [w |-> [w1 EXCEPT !.gs = recordMove(w1.gs, md)], ret |-> cs]

\* drawFromStock that ignores settings.drawCount and draws one card
drawFromStock_one(w) ==
    IF isEmpty(w, Stock) THEN recycleWasteToStock(w)
    ELSE LET r == drawLoop(w, 1, <<>>)
             md == MoveData("stock_to_waste", [i \in 1..Len(r.ret) |-> toString(r.ret[i])],
                            "", "", 0, 0)
         IN  [w |-> [r.w EXCEPT !.gs = recordMove(r.w.gs, md)], ret |-> r.ret]

drawFromStock(w) ==
    IF isEmpty(w, Stock) THEN recycleWasteToStock(w)
    ELSE LET drawCount == Min(settings.drawCount, getCardCount(w, Stock))
             r == drawLoop(w, drawCount, <<>>)
             md == MoveData("stock_to_waste", [i \in 1..Len(r.ret) |-> toString(r.ret[i])],
                            "", "", 0, 0)
         IN  [w |-> [r.w EXCEPT !.gs = recordMove(r.w.gs, md)], ret |-> r.ret]

executeCardFlip(w, c) ==
    IF w.cards[c].faceUp THEN [w |-> w, ret |-> FALSE]
    ELSE LET w1 == flip(w, c, TRUE)
             cs == w1.cards[c].currentStack
             md == MoveData("card_flip", <<toString(c)>>,
                            IF cs # 0 THEN StackType(cs) ELSE "unknown", "",
                            IF cs # 0 THEN StackIndex(cs) ELSE 0, 0)
         IN  [w |-> [w1 EXCEPT !.gs = recordMove(w1.gs, md)], ret |-> TRUE]

\* the inner forEach of findAutoCompletableCards: foundations k.. that accept the card
RECURSIVE completableOn(_, _, _, _)
completableOn(w, s, topCard, k) ==
    IF k > Len(Foundations) THEN <<>>
    ELSE (IF canMoveToFoundation(w, topCard, Foundations[k])
          THEN <<[card |-> topCard, fromStack |-> s, toStack |-> Foundations[k]]>>
          ELSE <<>>) \o completableOn(w, s, topCard, k + 1)

\* the outer forEach of findAutoCompletableCards over allStacks[k..]
RECURSIVE completableFrom(_, _)
completableFrom(w, k) ==
    IF k > Len(AllStacks) THEN <<>>
    ELSE LET s == AllStacks[k] IN
         (IF StackType(s) = "foundation" THEN <<>>
          ELSE IF isEmpty(w, s) THEN <<>>
          ELSE IF ~w.cards[getTopCard(w, s)].faceUp THEN <<>>
          ELSE completableOn(w, s, getTopCard(w, s), 1)) \o completableFrom(w, k + 1)

findAutoCompletableCards(w) == completableFrom(w, 1)

\* GameLogic.findCardsToFlip: the face-down top cards of the given stacks, in order
findCardsToFlip(w, tableauStacks) ==
    LET covered == SelectSeq(tableauStacks,
                             LAMBDA s : ~isEmpty(w, s) /\ ~w.cards[getTopCard(w, s)].faceUp)
    IN  [i \in 1..Len(covered) |-> getTopCard(w, covered[i])]

\* the optional property type of a hint object
hintType(h) == IF "type" \in DOMAIN h THEN h.type ELSE "undefined"

\* the forEach of findHints over the tableaus that accept card c lying on stack from
movesToTableaus(w, c, from) ==
    LET tos == SelectSeq(Tableaus, LAMBDA t : t # from /\ canMoveToTableau(w, c, t))
    IN  [i \in 1..Len(tos) |-> [card |-> c, fromStack |-> from, toStack |-> tos[i]]]

\* the outer forEach of findHints over tableauStacks[k..]
RECURSIVE tableauHintsFrom(_, _)
tableauHintsFrom(w, k) ==
    IF k > Len(Tableaus) THEN <<>>
    ELSE LET fromStack == Tableaus[k] IN
         (IF isEmpty(w, fromStack) THEN <<>>
          ELSE IF ~w.cards[getTopCard(w, fromStack)].faceUp THEN <<>>
          ELSE movesToTableaus(w, getTopCard(w, fromStack), fromStack))
         \o tableauHintsFrom(w, k + 1)

\* the flip hints of findHints
flipHints(w) ==
    LET cardsToFlip == SelectSeq(findCardsToFlip(w, Tableaus),
                                 LAMBDA c : w.cards[c].currentStack # 0)
    IN  [i \in 1..Len(cardsToFlip) |->
           [card |-> cardsToFlip[i],
            fromStack |-> w.cards[cardsToFlip[i]].currentStack,
            toStack |-> w.cards[cardsToFlip[i]].currentStack,
            type |-> "flip"]]

\* the hints from the waste top to the tableaus
wasteHints(w) ==
    IF isEmpty(w, Waste) THEN <<>>
    ELSE IF ~w.cards[getTopCard(w, Waste)].faceUp THEN <<>>
    ELSE movesToTableaus(w, getTopCard(w, Waste), Waste)

\* findHints that lists the flip hints first
findHints_flipsFirst(w) ==
    [w |-> w,
     ret |-> flipHints(w) \o findAutoCompletableCards(w) \o wasteHints(w)
             \o tableauHintsFrom(w, 1)]

\* findHints that turns the face-down tableau tops up as it finds them
findHints_flipping(w) ==
    LET cs == findCardsToFlip(w, Tableaus) IN
    [w |-> [w EXCEPT !.cards = [c \in CardIds |->
                        IF c \in Range(cs) THEN [@[c] EXCEPT !.faceUp = TRUE] ELSE @[c]]],
     ret |-> findAutoCompletableCards(w) \o wasteHints(w) \o tableauHintsFrom(w, 1)
             \o flipHints(w)]

\* findHints that looks for hints only while the game is being played
findHints_whilePlaying(w) ==
    [w |-> w,
     ret |-> IF ~isPlaying(w.gs) THEN <<>>
             ELSE findAutoCompletableCards(w) \o wasteHints(w) \o tableauHintsFrom(w, 1)
                  \o flipHints(w)]

\* GameLogic.findHints: the stacks after the call and the hints returned
findHints(w) ==
    [w |-> w,
     ret |-> findAutoCompletableCards(w) \o wasteHints(w) \o tableauHintsFrom(w, 1)
             \o flipHints(w)]

\* the reduce of isGameComplete over foundationStacks[k..]
RECURSIVE foundationTotal(_, _)
foundationTotal(w, k) ==
    IF k > Len(Foundations) THEN 0
    ELSE getCardCount(w, Foundations[k]) + foundationTotal(w, k + 1)

\* isGameComplete that counts to one card short of the deck
isGameComplete_oneShort(w) == foundationTotal(w, 1) = TOTAL_CARDS - 1

isGameComplete(w) == foundationTotal(w, 1) = TOTAL_CARDS

\* the object spread { type, ...hint }: the hint's own type, when it has one, wins
withType(type, h) ==
    [type |-> IF "type" \in DOMAIN h THEN h.type ELSE type,
     card |-> h.card, fromStack |-> h.fromStack, toStack |-> h.toStack]

wouldUnblockCards(w, fromStack, toStack, movingCard) ==
    IF StackType(fromStack) = "tableau"
    THEN LET remainingCards == SelectSeq(w.stacks[fromStack], LAMBDA c : c # movingCard) IN
         IF Len(remainingCards) > 0
         THEN ~w.cards[remainingCards[Len(remainingCards)]].faceUp
         ELSE FALSE
    ELSE FALSE

findUnblockingMoves(w, tableauMoves) ==
    SelectSeq(tableauMoves, LAMBDA m : wouldUnblockCards(w, m.fromStack, m.toStack, m.card))

\* getSmartMovePriority that looks at the flips before the foundation moves
getSmartMovePriority_flipsFirst(w, hints) ==
    LET foundationMoves == SelectSeq(hints, LAMBDA h : StackType(h.toStack) = "foundation")
        flipMoves == SelectSeq(hints, LAMBDA h : hintType(h) = "flip")
    IN  IF Len(flipMoves) > 0 THEN withType("flip", flipMoves[1])
        ELSE IF Len(foundationMoves) > 0 THEN withType("card_move", foundationMoves[1])
        ELSE withType("card_move", hints[1])

getSmartMovePriority(w, hints) ==
    LET foundationMoves == SelectSeq(hints, LAMBDA h : StackType(h.toStack) = "foundation")
        aceOrTwoMoves == SelectSeq(foundationMoves, LAMBDA h : getValue(h.card) <= 2)
        flipMoves == SelectSeq(hints, LAMBDA h : hintType(h) = "flip")
        tableauMoves == SelectSeq(hints, LAMBDA h : StackType(h.toStack) = "tableau")
        emptyTableauMoves == SelectSeq(tableauMoves, LAMBDA h : Len(w.stacks[h.toStack]) = 0)
        unblockingMoves == findUnblockingMoves(w, tableauMoves)
    IN  IF Len(foundationMoves) > 0
        THEN (IF Len(aceOrTwoMoves) > 0 THEN withType("card_move", aceOrTwoMoves[1])
              ELSE withType("card_move", foundationMoves[1]))
        ELSE IF Len(flipMoves) > 0 THEN withType("flip", flipMoves[1])
        ELSE IF Len(tableauMoves) > 0
        THEN (IF Len(emptyTableauMoves) > 0 THEN withType("card_move", emptyTableauMoves[1])
              ELSE IF Len(unblockingMoves) > 0 THEN withType("card_move", unblockingMoves[1])
              ELSE withType("card_move", tableauMoves[1]))
        ELSE withType("card_move", hints[1])

\* the null that suggestBestMove returns when there is nothing to suggest
null == [type |-> "null"]

\* suggestBestMove that suggests recycling before drawing
suggestBestMove_recycleFirst(w) ==
    LET h == findHints(w) IN
    [w |-> h.w,
     ret |-> IF Len(h.ret) = 0
             THEN (IF ~isEmpty(h.w, Waste)
                   THEN [type |-> "recycle_waste", fromStack |-> Waste, toStack |-> Stock]
                   ELSE IF ~isEmpty(h.w, Stock)
                   THEN [type |-> "draw_stock", fromStack |-> Stock, toStack |-> Waste]
                   ELSE null)
             ELSE getSmartMovePriority(h.w, h.ret)]

\* GameLogic.suggestBestMove: the stacks after the call and the move returned
suggestBestMove(w) ==
    LET h == findHints(w) IN
    [w |-> h.w,
     ret |-> IF Len(h.ret) = 0
             THEN (IF ~isEmpty(h.w, Stock)
                   THEN [type |-> "draw_stock", fromStack |-> Stock, toStack |-> Waste]
                   ELSE IF ~isEmpty(h.w, Waste)
                   THEN [type |-> "recycle_waste", fromStack |-> Waste, toStack |-> Stock]
                   ELSE null)
             ELSE getSmartMovePriority(h.w, h.ret)]

\* isGameBlocked that does not look at the waste
isGameBlocked_ignoringWaste(w) ==
    LET h == findHints(w) IN
    [w |-> h.w, ret |-> Len(h.ret) = 0 /\ isEmpty(h.w, Stock)]

\* GameLogic.isGameBlocked: the stacks after the call and the answer
isGameBlocked(w) ==
    LET h == findHints(w)
        canDrawFromStock == ~isEmpty(h.w, Stock)
        canDrawFromWaste == ~isEmpty(h.w, Waste)
    IN  [w |-> h.w, ret |-> Len(h.ret) = 0 /\ ~canDrawFromStock /\ ~canDrawFromWaste]

executeSingleCardMove(w, c, from, to) ==
    IF ~validateMove(w, c, from, to) THEN [w |-> w, ret |-> FALSE]
    ELSE LET w1 == addCard(removeCard(w, from, c), to, c)
             a == IF StackType(to) = "foundation"
                  THEN addToFoundation(w1.gs)
                  ELSE [gs |-> w1.gs, ret |-> FALSE]
         IN  IF a.ret THEN [w |-> [w1 EXCEPT !.gs = a.gs], ret |-> TRUE]
             ELSE LET g2 == IF StackType(from) = "foundation"
                            THEN removeFromFoundation(a.gs) ELSE a.gs
                      md == MoveData("card_move", <<toString(c)>>, StackType(from),
                                     StackType(to), StackIndex(from), StackIndex(to))
                  IN  [w |-> [w1 EXCEPT !.gs = recordMove(g2, md)], ret |-> TRUE]

\* the forEach of executeMultiCardMove
RECURSIVE moveEach(_, _, _, _)
moveEach(w, cs, from, to) ==
    IF cs = <<>> THEN w
    ELSE moveEach(addCard(removeCard(w, from, Head(cs)), to, Head(cs)), Tail(cs), from, to)

executeMultiCardMove(w, cs, from, to) ==
    IF ~validateMultiCardMove(w, cs, from, to) THEN [w |-> w, ret |-> FALSE]
    ELSE LET w1 == moveEach(w, cs, from, to)
             md == MoveData("multi_card_move", [i \in 1..Len(cs) |-> toString(cs[i])],
                            StackType(from), StackType(to), StackIndex(from), StackIndex(to))
         IN  [w |-> [w1 EXCEPT !.gs = recordMove(w1.gs, md)], ret |-> TRUE]

\* the forEach of executeAutoComplete over the pairs found at the start
RECURSIVE completeEach(_, _)
completeEach(w, pairs) ==
    IF pairs = <<>> THEN w
    ELSE LET p == Head(pairs) IN
         completeEach(executeSingleCardMove(w, p.card, p.fromStack, p.toStack).w, Tail(pairs))

\* executeAutoComplete that reports a move whether or not it found one
executeAutoComplete_alwaysTrue(w) ==
    [w |-> completeEach(w, findAutoCompletableCards(w)), ret |-> TRUE]

\* executeAutoComplete that sweeps a second time over the pairs found after the first
executeAutoComplete_twice(w) ==
    LET completableCards == findAutoCompletableCards(w) IN
    IF Len(completableCards) = 0 THEN [w |-> w, ret |-> FALSE]
    ELSE LET w1 == completeEach(w, completableCards) IN
         [w |-> completeEach(w1, findAutoCompletableCards(w1)), ret |-> TRUE]

executeAutoComplete(w) ==
    LET completableCards == findAutoCompletableCards(w) IN
    IF Len(completableCards) = 0 THEN [w |-> w, ret |-> FALSE]
    ELSE [w |-> completeEach(w, completableCards), ret |-> TRUE]

\* undoMove whose card_flip handler turns the top card of the column face-down again
undoMove_turningDown(w, moveData) ==
    IF moveData.type = "card_flip" /\ moveData.from = "tableau"
       /\ ~isEmpty(w, Tableaus[moveData.fromIndex + 1])
    THEN [w |-> flip(w, getTopCard(w, Tableaus[moveData.fromIndex + 1]), FALSE), ret |-> TRUE]
    ELSE [w |-> w, ret |-> moveData.type \in {"card_move", "multi_card_move",
                                               "stock_to_waste", "waste_to_stock"}]

\* GameLogic.undoMove: the five handlers only log
undoMove(w, moveData) ==
    IF moveData.type \in {"card_move", "multi_card_move", "stock_to_waste",
                          "waste_to_stock", "card_flip"}
    THEN [w |-> w, ret |-> TRUE]
    ELSE [w |-> w, ret |-> FALSE]

---------------------------------------------------------------------------
(* Deck: the deal *)

\* the card of the si-th suit and ri-th rank
C(si, ri) == (si - 1) * CARDS_PER_SUIT + ri

\* Deck.createDeck: forEach suit, forEach rank, push
createDeck == [k \in 1..TOTAL_CARDS |-> k]

\* the k-th card dealCard pops from a deck array
dealCard(deck, k) == deck[Len(deck) + 1 - k]

\* number of cards dealt before tableau column col (0-based)
dealtBefore(col) == (col * (col + 1)) \div 2

\* dealForSolitaire that flips every tableau card face-up
dealForSolitaire_allUp(deck) ==
    LET nTableau == dealtBefore(TABLEAU_COLUMNS) IN
    [tableau |-> [col \in 1..TABLEAU_COLUMNS |->
                    [row \in 1..col |-> dealCard(deck, dealtBefore(col - 1) + row)]],
     stock |-> [k \in 1..(Len(deck) - nTableau) |-> dealCard(deck, nTableau + k)],
     faceUp |-> {dealCard(deck, k) : k \in 1..nTableau}]

\* Deck.dealForSolitaire: the DealResult; faceUp is the set of cards flipped up
\* (row === col), every other card is flipped down
dealForSolitaire(deck) ==
    LET nTableau == dealtBefore(TABLEAU_COLUMNS) IN
    [tableau |-> [col \in 1..TABLEAU_COLUMNS |->
                    [row \in 1..col |-> dealCard(deck, dealtBefore(col - 1) + row)]],
     stock |-> [k \in 1..(Len(deck) - nTableau) |-> dealCard(deck, nTableau + k)],
     faceUp |-> {dealCard(deck, dealtBefore(col)) : col \in 1..TABLEAU_COLUMNS}]

\* addCard of every card of the arrays st, bottom to top, onto empty stacks, the
\* cards of faceUp already flipped up. Each card is the top of its stack when it
\* is added, so addCard leaves isDraggable = faceUp outside the stock.
placeCards(w, st, faceUp) ==
    LET home(c) == CHOOSE s \in StackIds : c \in Range(st[s]) IN
    [w EXCEPT
        !.stacks = st,
        !.cards = [c \in CardIds |->
                     [faceUp |-> c \in faceUp,
                      isDraggable |-> StackType(home(c)) # "stock" /\ c \in faceUp,
                      currentStack |-> home(c),
                      stackIndex |-> IndexOf(st[home(c)], c) - 1]]]

\* GameController.dealCards on empty stacks: the stock cards, then the tableau
\* cards column by column
dealCards(w, dealResult) ==
    placeCards(w,
               [s \in StackIds |->
                  IF s = Stock THEN dealResult.stock
                  ELSE IF s \in TableauIds THEN dealResult.tableau[StackIndex(s) + 1]
                  ELSE <<>>],
               dealResult.faceUp)

EmptyWorld ==
    World([s \in StackIds |-> <<>>], [c \in CardIds |-> NewCard], NewGameState)

\* GameController.newGame on a fresh controller, with the given shuffled deck
newGame(deck) ==
    LET w == dealCards([EmptyWorld EXCEPT !.gs = reset(NewGameState)],
                       dealForSolitaire(deck))
    IN  [w EXCEPT !.gs = startGame(w.gs)]

\* Two outcomes of Deck.shuffle. DealA lists a deck in the order dealCard pops it:
\* tableau columns 0..6 (1..7 cards, the last of each face-up), then the stock,
\* whose last card is the stock's top.
DealA ==
    << C(1,1),
       C(2,13), C(4,1),
       C(2,12), C(2,11), C(1,2),
       C(2,10), C(2,9), C(2,8), C(4,13),
       C(2,7), C(2,6), C(2,5), C(2,4), C(1,12),
       C(3,13), C(3,12), C(3,11), C(3,10), C(3,9), C(3,2),
       C(3,8), C(3,7), C(3,6), C(3,5), C(3,4), C(3,3), C(2,3),
       C(3,1), C(2,2), C(1,4), C(1,5), C(1,6), C(1,7), C(1,8), C(1,9), C(1,10),
       C(1,11), C(1,13), C(4,3), C(4,4), C(4,5), C(4,6), C(4,7), C(4,8), C(4,9),
       C(4,10), C(4,11), C(4,12), C(4,2), C(2,1), C(1,3) >>

DeckA == Reverse(DealA)
DeckSorted == createDeck
Decks == {DeckA, DeckSorted}

---------------------------------------------------------------------------
(* GameController *)

W == World(stacks, cards, gameState)

Ret(op, result) == [op |-> op, result |-> result, args |-> <<>>]

\* onSuccessfulMove: [w, victory]; victory is 1 when onGameComplete is started
onSuccessfulMove(w, c, to) ==
    LET g1 == IF StackType(to) = "foundation" THEN addToFoundation(w.gs).gs ELSE w.gs
        w1 == [w EXCEPT !.gs = g1]
    IN  [w |-> w1, victory |-> IF isGameComplete(w1) THEN 1 ELSE 0]

handleCardMove(w, c, from, to) ==
    IF ~isPlaying(w.gs) THEN [w |-> w, ret |-> FALSE, victory |-> 0]
    ELSE LET r == executeSingleCardMove(w, c, from, to) IN
         IF r.ret
         THEN LET o == onSuccessfulMove(r.w, c, to) IN
              [w |-> o.w, ret |-> TRUE, victory |-> o.victory]
         ELSE [w |-> r.w, ret |-> FALSE, victory |-> 0]

handleMultiCardMove(w, cs, from, to) ==
    IF ~isPlaying(w.gs) THEN [w |-> w, ret |-> FALSE, victory |-> 0]
    ELSE LET r == executeMultiCardMove(w, cs, from, to) IN
         IF r.ret
         THEN LET o == onSuccessfulMove(r.w, cs[1], to) IN
              [w |-> o.w, ret |-> TRUE, victory |-> o.victory]
         ELSE [w |-> r.w, ret |-> FALSE, victory |-> 0]

\* the for loop of handleCardDoubleClick over foundationStacks[k..]
RECURSIVE doubleClickFrom(_, _, _, _)
doubleClickFrom(w, c, from, k) ==
    IF k > Len(Foundations) THEN [w |-> w, ret |-> FALSE, victory |-> 0]
    ELSE IF validateMove(w, c, from, Foundations[k])
         THEN LET r == handleCardMove(w, c, from, Foundations[k]) IN
              IF r.ret THEN r ELSE doubleClickFrom(r.w, c, from, k + 1)
         ELSE doubleClickFrom(w, c, from, k + 1)

handleCardDoubleClick(w, c) ==
    IF ~isPlaying(w.gs) THEN [w |-> w, ret |-> FALSE, victory |-> 0]
    ELSE IF w.cards[c].currentStack = 0 THEN [w |-> w, ret |-> FALSE, victory |-> 0]
    ELSE doubleClickFrom(w, c, w.cards[c].currentStack, 1)

handleStockClick(w) ==
    IF ~isPlaying(w.gs) THEN [w |-> w, ret |-> <<>>]
    ELSE drawFromStock(w)

autoComplete(w) ==
    IF ~settings.autoComplete \/ ~isPlaying(w.gs) THEN [w |-> w, ret |-> FALSE]
    ELSE executeAutoComplete(w)

\* GameController.undoLastMove
GC_undoLastMove(w) ==
    IF ~canUndo(w.gs) THEN [w |-> w, ret |-> FALSE]
    ELSE LET u == undoLastMove(w.gs) IN
         IF u.ret # <<>>
         THEN [w |-> undoMove([w EXCEPT !.gs = u.gs], u.ret[1]).w, ret |-> TRUE]
         ELSE [w |-> [w EXCEPT !.gs = u.gs], ret |-> FALSE]

\* the forEach of clearGame over a copy of one stack's cards, bottom card first:
\* each removeCard detaches its card and refreshes the flags of the cards still in
\* the stack, so a card keeps the flag of the last refresh before its own removal,
\* and the bottom card, removed before any refresh, keeps the flag it had
removeAll(w, s) ==
    LET seq == w.stacks[s]
        left(c) == [w.cards[c] EXCEPT
                       !.currentStack = 0,
                       !.stackIndex = -1,
                       !.isDraggable =
                           IF IndexOf(seq, c) = 1 THEN @
                           ELSE DraggableIn(s, SubSeq(seq, IndexOf(seq, c), Len(seq)),
                                            w.cards, c)]
    IN  [w EXCEPT !.stacks[s] = <<>>,
                  !.cards = [c \in DOMAIN w.cards |->
                                IF IndexOf(seq, c) = 0 THEN w.cards[c] ELSE left(c)]]

\* the forEach of clearGame over getAllStacks()[k..]
RECURSIVE clearFrom(_, _)
clearFrom(w, k) ==
    IF k > Len(AllStacks) THEN w
    ELSE LET cleared == CHOOSE x \in {removeAll(w, AllStacks[k])} : TRUE
         IN  clearFrom(cleared, k + 1)

\* GameController.clearGame: the deck is dropped and every stack emptied
clearGame(w) == clearFrom(w, 1)

\* this.deck is not null: newGame sets it and deals its 52 cards, clearGame nulls it
\* and empties the stacks, and nothing else assigns it, so the deck exists exactly
\* when some stack holds a card
deckExists(w) == \E s \in StackIds : w.stacks[s] # <<>>

\* GameController.restartGame: after clearGame has set this.deck = null,
\* this.deck.shuffle() throws a TypeError and the rest of the method does not run
restartGame(w) ==
    IF ~deckExists(w) THEN [w |-> w, ret |-> "returned"]
    ELSE [w |-> clearGame(w), ret |-> "TypeError"]

\* GameController.newGame on a controller that has played: the statistics survive
\* GameState.reset
GC_newGame(w, deck) ==
    LET d == dealCards([EmptyWorld EXCEPT !.gs = reset(w.gs)], dealForSolitaire(deck))
    IN  [d EXCEPT !.gs = startGame(d.gs)]

\* GameController.updateStacksScale
updateStacksScale(gs) == IF gs.isPaused THEN [gs EXCEPT !.isPaused = FALSE] ELSE gs

\* A card receives pointer events when it is shown uncovered: every card of a
\* tableau is fanned out by getCardPosition, the other stacks show their top card
Clickable(c) ==
    LET s == cards[c].currentStack IN
    /\ s # 0
    /\ c \in Range(stacks[s])
    /\ (StackType(s) = "tableau" \/ getTopCardOf(stacks[s]) = c)

\* Card.canFlip
canFlip(c) ==
    LET s == cards[c].currentStack IN
    /\ s # 0
    /\ StackType(s) = "tableau"
    /\ Len(stacks[s]) > 0 /\ getTopCardOf(stacks[s]) = c

\* Card.onPointerDown reaches startDrag
CanStartDrag(c) ==
    /\ Clickable(c)
    /\ StackType(cards[c].currentStack) # "stock"
    /\ ~(~cards[c].faceUp /\ canFlip(c))
    /\ cards[c].faceUp /\ cards[c].isDraggable

\* InputHandler.handleCardDragStart: the dragged cards
draggedCards(c) ==
    LET s == cards[c].currentStack IN
    IF StackType(s) = "tableau" THEN getCardsFromIndex(W, s, cards[c].stackIndex)
    ELSE <<c>>

Commit(w, op, result, victory) ==
    /\ stacks' = w.stacks
    /\ cards' = w.cards
    /\ gameState' = w.gs
    /\ victoryPending' = victoryPending + victory
    /\ ret' = Ret(op, result)
    /\ steps' = steps + 1

---------------------------------------------------------------------------
(* The game: the state after the first newGame, and the user's commands *)

Init ==
    \E deck \in Decks, dc \in {1, 3} :
        LET w == newGame(deck) IN
        /\ stacks = w.stacks
        /\ cards = w.cards
        /\ gameState = w.gs
        /\ settings = [drawCount |-> dc, allowUndo |-> TRUE, autoComplete |-> TRUE]
        /\ inputEnabled = TRUE
        /\ victoryPending = 0
        /\ ret = Ret("newGame", TRUE)
        /\ steps = 0
        /\ dealt = w.stacks

\* a click on the stock
StockClick ==
    /\ steps < MaxSteps
    /\ LET r == handleStockClick(W) IN Commit(r.w, "handleStockClick", r.ret, 0)
    /\ UNCHANGED <<settings, inputEnabled, dealt>>

\* drag of one card, dropped on stack t
DragCard ==
    /\ steps < MaxSteps
    /\ inputEnabled
    /\ \E c \in CardIds :
        /\ CanStartDrag(c)
        /\ Len(draggedCards(c)) <= 1
        /\ \E t \in StackIds :
            LET r == handleCardMove(W, c, cards[c].currentStack, t)
            IN  Commit(r.w, "handleCardMove", r.ret, r.victory)
    /\ UNCHANGED <<settings, inputEnabled, dealt>>

\* drag of a card with the run above it, dropped on stack t
DragRun ==
    /\ steps < MaxSteps
    /\ inputEnabled
    /\ \E c \in CardIds :
        /\ CanStartDrag(c)
        /\ Len(draggedCards(c)) > 1
        /\ \E t \in StackIds :
            LET r == handleMultiCardMove(W, draggedCards(c), cards[c].currentStack, t)
            IN  Commit(r.w, "handleMultiCardMove", r.ret, r.victory)
    /\ UNCHANGED <<settings, inputEnabled, dealt>>

\* double click on a face-up card
DoubleClick ==
    /\ steps < MaxSteps
    /\ inputEnabled
    /\ \E c \in CardIds :
        /\ Clickable(c)
        /\ cards[c].faceUp
        /\ LET r == handleCardDoubleClick(W, c)
           IN  Commit(r.w, "handleCardDoubleClick", r.ret, r.victory)
    /\ UNCHANGED <<settings, inputEnabled, dealt>>

\* click on a face-down top card of a tableau: Card.onPointerDown flips it
FlipClick ==
    /\ steps < MaxSteps
    /\ \E c \in CardIds :
        /\ Clickable(c)
        /\ StackType(cards[c].currentStack) # "stock"
        /\ ~cards[c].faceUp /\ canFlip(c)
        /\ Commit(flip(W, c, TRUE), "flip", TRUE, 0)
    /\ UNCHANGED <<settings, inputEnabled, dealt>>

AutoComplete ==
    /\ steps < MaxSteps
    /\ LET r == autoComplete(W) IN Commit(r.w, "autoComplete", r.ret, 0)
    /\ UNCHANGED <<settings, inputEnabled, dealt>>

Undo ==
    /\ steps < MaxSteps
    /\ LET r == GC_undoLastMove(W) IN Commit(r.w, "undoLastMove", r.ret, 0)
    /\ UNCHANGED <<settings, inputEnabled, dealt>>

\* GameController.togglePause
TogglePause ==
    /\ steps < MaxSteps
    /\ gameState' = togglePause(gameState)
    /\ inputEnabled' = ~gameState'.isPaused
    /\ ret' = Ret("togglePause", TRUE)
    /\ steps' = steps + 1
    /\ UNCHANGED <<stacks, cards, settings, victoryPending, dealt>>

Next ==
    \/ StockClick
    \/ DragCard
    \/ DragRun
    \/ DoubleClick
    \/ FlipClick
    \/ AutoComplete
    \/ Undo
    \/ TogglePause

Spec == Init /\ [][Next]_vars

---------------------------------------------------------------------------
(* The rule functions applied to bounded inputs.  A table holds one         *)
(* destination pile of at most one card on the first foundation or the     *)
(* first tableau column; the other cards lie face-down in the stock or     *)
(* face-up in the waste.  One action per function applies it to arguments  *)
(* drawn from bounded sets and keeps the arguments and the result in ret.  *)

MaxRun == 3

\* the top cards tried on the destination pile: A hearts, 10 hearts, Q clubs, K spades
TopCards == {C(1, 1), C(1, 10), C(3, 12), C(4, 13)}

\* the cards lists are built from: K spades, Q hearts, J spades, J hearts
RunCards == {C(4, 13), C(1, 12), C(4, 11), C(1, 11)}

\* the sets of cards tried as the stock's face-down cards
FaceDownChoices == {{}, {C(1, 12), C(2, 9), C(3, 1), C(4, 13)}}

\* the four states of the game-state object: playing, paused, not started, completed
Playing == startGame(reset(NewGameState))
GameStates == {Playing, togglePause(Playing), reset(NewGameState), completeGame(Playing)}

Runs == UNION {[1..n -> RunCards] : n \in 0..MaxRun}

Table(d, t, topUp, down, gs) ==
    LET rest == SelectSeq(createDeck, LAMBDA c : c # t)
        st == [s \in StackIds |->
                 IF s = d /\ t # 0 THEN <<t>>
                 ELSE IF s = Stock /\ d # Stock THEN SelectSeq(rest, LAMBDA c : c \in down)
                 ELSE IF s = Waste THEN SelectSeq(rest, LAMBDA c : c \notin down)
                 ELSE <<>>]
        up == ((CardIds \ down) \ {t}) \cup (IF topUp THEN {t} ELSE {})
    IN  placeCards([EmptyWorld EXCEPT !.gs = gs], st, up)

InitRules ==
    \E d \in {Foundations[1], Tableaus[1]}, t \in {0} \cup TopCards, topUp \in BOOLEAN,
       down \in FaceDownChoices, gs \in GameStates :
        LET w == Table(d, t, topUp, down, gs) IN
        /\ t \notin down
        /\ (t = 0 => topUp /\ d = Foundations[1])
        /\ stacks = w.stacks
        /\ cards = w.cards
        /\ gameState = w.gs
        /\ settings = [drawCount |-> 3, allowUndo |-> TRUE, autoComplete |-> TRUE]
        /\ inputEnabled = TRUE
        /\ victoryPending = 0
        /\ ret = Ret("newGame", TRUE)
        /\ steps = 0
        /\ dealt = w.stacks

Answer(op, args, result) ==
    /\ ret' = [op |-> op, result |-> result, args |-> args]
    /\ steps' = steps + 1
    /\ UNCHANGED <<stacks, cards, gameState, settings, inputEnabled, victoryPending, dealt>>

CallCanAcceptCard ==
    /\ steps = 0
    /\ \E s \in {Stock, Waste, Foundations[1], Foundations[2], Tableaus[1], Tableaus[2]},
          c \in CardIds :
           Answer("canAcceptCard", <<s, c>>, canAcceptCard(W, s, c))

CallValidateMove ==
    /\ steps = 0
    /\ \E c \in CardIds, from \in {Waste, Tableaus[2]},
          to \in {Stock, Waste, Foundations[1], Tableaus[1]} :
           Answer("validateMove", <<c, from, to>>, validateMove(W, c, from, to))

CallValidateMultiCardMove ==
    /\ steps = 0
    /\ \E cs \in Runs, from \in {Waste, Tableaus[2]},
          to \in {Foundations[1], Tableaus[1]} :
           Answer("validateMultiCardMove", <<cs, from, to>>,
                  validateMultiCardMove(W, cs, from, to))

NextRules ==
    \/ CallCanAcceptCard
    \/ CallValidateMove
    \/ CallValidateMultiCardMove

SpecRules == InitRules /\ [][NextRules]_vars

---------------------------------------------------------------------------
(* drawFromStock applied again and again to a bounded stock.  The table is  *)
(* a deal whose stock keeps its top MaxStock cards at most and whose waste  *)
(* holds up to MaxWaste of the next ones; the stock cards left over lie     *)
(* face-up on the last tableau column.                                      *)

MaxStock == 5
MaxWaste == 1
MaxDraws == 6

DrawTable(deck, n, m) ==
    LET w == newGame(deck)
        stock == w.stacks[Stock]
        k == Len(stock)
        last == Tableaus[TABLEAU_COLUMNS]
        st == [s \in StackIds |->
                 IF s = Stock THEN SubSeq(stock, k - n + 1, k)
                 ELSE IF s = Waste THEN SubSeq(stock, k - n - m + 1, k - n)
                 ELSE IF s = last THEN w.stacks[last] \o SubSeq(stock, 1, k - n - m)
                 ELSE w.stacks[s]]
        up == {c \in CardIds : w.cards[c].faceUp} \cup Range(SubSeq(stock, 1, k - n))
    IN  placeCards(w, st, up)

InitDraw ==
    \E deck \in Decks, n \in 0..MaxStock, m \in 0..MaxWaste, dc \in {1, 3} :
        LET w == DrawTable(deck, n, m) IN
        /\ stacks = w.stacks
        /\ cards = w.cards
        /\ gameState = w.gs
        /\ settings = [drawCount |-> dc, allowUndo |-> TRUE, autoComplete |-> TRUE]
        /\ inputEnabled = TRUE
        /\ victoryPending = 0
        /\ ret = Ret("newGame", TRUE)
        /\ steps = 0
        /\ dealt = w.stacks

\* GameLogic.drawFromStock(stockStack, wasteStack)
CallDrawFromStock ==
    /\ steps < MaxDraws
    /\ LET r == drawFromStock(W) IN Commit(r.w, "drawFromStock", r.ret, 0)
    /\ UNCHANGED <<settings, inputEnabled, dealt>>

NextDraw == CallDrawFromStock

SpecDraw == InitDraw /\ [][NextDraw]_vars

---------------------------------------------------------------------------
(* The queries of GameLogic on laid-out tables: findHints, suggestBestMove,
   isGameBlocked, isGameComplete, validateMove, validateMultiCardMove *)

\* tableau columns 3..6 of a layout when nothing is laid on them
NoFixed == [k \in 4..7 |-> [cards |-> <<>>, down |-> 0]]

\* columns 3..6 holding [JH KD], [KH], [JD QD], [QH], the jacks face-down
RedColumns ==
    [k \in 4..7 |->
        IF k = 4 THEN [cards |-> <<C(1, 11), C(2, 13)>>, down |-> 1]
        ELSE IF k = 5 THEN [cards |-> <<C(1, 13)>>, down |-> 0]
        ELSE IF k = 6 THEN [cards |-> <<C(2, 11), C(2, 12)>>, down |-> 1]
        ELSE [cards |-> <<C(1, 12)>>, down |-> 0]]

\* The layouts tried: the foundation of suit i holds ranks 1..heights[i], columns
\* 3..6 hold the fixed cards, the free cards are laid in their order on the stock,
\* the waste or columns 0..2, and whatever is left lies at the bottom of the stock.
HintLayouts ==
    { [heights |-> <<13, 13, 13, 13>>, fixed |-> NoFixed, free |-> <<>>],
      [heights |-> <<13, 13, 13, 12>>, fixed |-> NoFixed, free |-> <<C(4, 13)>>],
      [heights |-> <<10, 13, 13, 13>>, fixed |-> NoFixed,
       free |-> <<C(1, 11), C(1, 13), C(1, 12)>>],
      [heights |-> <<10, 10, 12, 10>>, fixed |-> RedColumns,
       free |-> <<C(4, 11), C(3, 13), C(4, 12), C(4, 13)>>],
      [heights |-> <<0, 13, 13, 12>>, fixed |-> NoFixed, free |-> <<C(4, 13), C(1, 1)>>],
      [heights |-> <<1, 13, 13, 12>>, fixed |-> NoFixed, free |-> <<C(4, 13), C(1, 2)>>],
      [heights |-> <<2, 13, 13, 12>>, fixed |-> NoFixed, free |-> <<C(4, 13), C(1, 3)>>] }

\* where a free card may lie
FreeSlots == {Stock, Waste, Tableaus[1], Tableaus[2], Tableaus[3]}

\* the stack arrays of layout cfg with free card i on stack a[i]
HintStacks(cfg, a) ==
    LET n == Len(cfg.free)
        idx(s) == SelectSeq([i \in 1..n |-> i], LAMBDA i : a[i] = s)
        freeOn(s) == [j \in 1..Len(idx(s)) |-> cfg.free[idx(s)[j]]]
        pile(i) == [r \in 1..cfg.heights[i] |-> C(i, r)]
        placed == UNION {Range(pile(i)) : i \in 1..FOUNDATION_PILES}
                  \cup Range(cfg.free)
                  \cup UNION {Range(cfg.fixed[k].cards) : k \in DOMAIN cfg.fixed}
        bulk == SelectSeq(createDeck, LAMBDA c : c \notin placed)
    IN  <<bulk \o freeOn(Stock), freeOn(Waste),
          pile(1), pile(2), pile(3), pile(4),
          freeOn(Tableaus[1]), freeOn(Tableaus[2]), freeOn(Tableaus[3]),
          cfg.fixed[4].cards, cfg.fixed[5].cards, cfg.fixed[6].cards, cfg.fixed[7].cards>>

\* the face-up cards of the layout with stack arrays st when the free cards of d
\* lie face-down: every card outside the stock but those and the fixed face-down ones
HintFaceUp(cfg, st, d) ==
    (CardIds \ Range(st[Stock]))
    \ ({cfg.free[i] : i \in d}
       \cup UNION {{cfg.fixed[k].cards[j] : j \in 1..cfg.fixed[k].down} :
                      k \in DOMAIN cfg.fixed})

\* a tableau column as play leaves it: face-down cards below, a run of face-up cards
\* in alternating colours and descending ranks above
PlayedColumn(column, up) ==
    \A i \in 1..(Len(column) - 1) :
        LET below == column[i]
            above == column[i + 1]
        IN  below \in up =>
               /\ above \in up
               /\ isRed(above) # isRed(below)
               /\ getValue(above) = getValue(below) - 1

InitHints ==
    \E cfg \in HintLayouts :
      \E a \in [1..Len(cfg.free) -> FreeSlots] :
        \E d \in SUBSET {i \in 1..Len(cfg.free) : a[i] \in TableauIds} :
          \E st \in {HintStacks(cfg, a)} : \E up \in {HintFaceUp(cfg, st, d)} :
          /\ \A s \in TableauIds : PlayedColumn(st[s], up)
          /\ \E gs \in {Playing, togglePause(Playing)} :
              \E w \in {placeCards([EmptyWorld EXCEPT !.gs = gs], st, up)} :
               /\ stacks = w.stacks
               /\ cards = w.cards
               /\ gameState = w.gs
               /\ settings = [drawCount |-> 3, allowUndo |-> TRUE, autoComplete |-> TRUE]
               /\ inputEnabled = TRUE
               /\ victoryPending = 0
               /\ ret = Ret("newGame", TRUE)
               /\ steps = 0
               /\ dealt = w.stacks

\* a query is asked once, or a second time right after itself
Once(op) == steps = 0 \/ (steps = 1 /\ ret.op = op)

AskFindHints ==
    /\ Once("findHints")
    /\ LET r == findHints(W) IN Commit(r.w, "findHints", r.ret, 0)
    /\ UNCHANGED <<settings, inputEnabled, dealt>>

AskSuggestBestMove ==
    /\ Once("suggestBestMove")
    /\ LET r == suggestBestMove(W) IN Commit(r.w, "suggestBestMove", r.ret, 0)
    /\ UNCHANGED <<settings, inputEnabled, dealt>>

AskIsGameBlocked ==
    /\ Once("isGameBlocked")
    /\ LET r == isGameBlocked(W) IN Commit(r.w, "isGameBlocked", r.ret, 0)
    /\ UNCHANGED <<settings, inputEnabled, dealt>>

AskIsGameComplete ==
    /\ Once("isGameComplete")
    /\ Commit(W, "isGameComplete", isGameComplete(W), 0)
    /\ UNCHANGED <<settings, inputEnabled, dealt>>

\* validateMove of the top card of a stack to another stack
AskValidateMove ==
    /\ Once("validateMove")
    /\ \E from \in {Waste, Tableaus[1]}, to \in {Foundations[4], Tableaus[2]} :
          /\ ~isEmpty(W, from)
          /\ Commit(W, "validateMove", validateMove(W, getTopCard(W, from), from, to), 0)
    /\ UNCHANGED <<settings, inputEnabled, dealt>>

\* validateMultiCardMove of the cards of a tableau from some index to another tableau
AskValidateMultiCardMove ==
    /\ Once("validateMultiCardMove")
    /\ \E from \in {Tableaus[1]}, to \in {Tableaus[2], Tableaus[5]}, i \in 0..1 :
          /\ i < getCardCount(W, from)
          /\ Commit(W, "validateMultiCardMove",
                    validateMultiCardMove(W, getCardsFromIndex(W, from, i), from, to), 0)
    /\ UNCHANGED <<settings, inputEnabled, dealt>>

NextHints ==
    \/ AskFindHints
    \/ AskSuggestBestMove
    \/ AskIsGameBlocked
    \/ AskIsGameComplete
    \/ AskValidateMove
    \/ AskValidateMultiCardMove

SpecHints == InitHints /\ [][NextHints]_vars

----------------------------------------------------------------------------

(* GameState.recordMove and GameState.undoLastMove called in any order *)

MaxCalls == 103

InitHistory ==
    \E gs \in {Playing, togglePause(Playing), reset(NewGameState)}, allowUndo \in BOOLEAN :
      \E w \in {newGame(DeckSorted)} :
        /\ stacks = w.stacks
        /\ cards = w.cards
        /\ gameState = gs
        /\ settings = [drawCount |-> 3, allowUndo |-> allowUndo, autoComplete |-> TRUE]
        /\ inputEnabled = TRUE
        /\ victoryPending = 0
        /\ ret = Ret("newGame", TRUE)
        /\ steps = 0
        /\ dealt = w.stacks

\* the kinds of move that are recorded
MoveKinds == <<"card_move", "multi_card_move", "stock_to_waste", "waste_to_stock", "card_flip">>

\* the moves recorded are of the five kinds in turn
CallRecordMove ==
    /\ steps < MaxCalls
    /\ gameState' = recordMove(gameState,
                               MoveData(MoveKinds[(gameState.moves % Len(MoveKinds)) + 1],
                                        <<>>, "tableau", "", 6, 0))
    /\ ret' = Ret("recordMove", TRUE)
    /\ steps' = steps + 1
    /\ UNCHANGED <<stacks, cards, settings, inputEnabled, victoryPending, dealt>>

CallUndoLastMove ==
    /\ steps < MaxCalls
    /\ LET r == undoLastMove(gameState) IN
          /\ gameState' = r.gs
          /\ ret' = Ret("undoLastMove", r.ret)
    /\ steps' = steps + 1
    /\ UNCHANGED <<stacks, cards, settings, inputEnabled, victoryPending, dealt>>

\* GameController.undoLastMove
ControllerUndo ==
    /\ steps < MaxCalls
    /\ LET r == GC_undoLastMove(W) IN Commit(r.w, "GameController.undoLastMove", r.ret, 0)
    /\ UNCHANGED <<settings, inputEnabled, dealt>>

NextHistory ==
    \/ CallRecordMove
    \/ CallUndoLastMove
    \/ ControllerUndo

SpecHistory == InitHistory /\ [][NextHistory]_vars

----------------------------------------------------------------------------

(* CardStack.getCardsFromIndex on a tableau column of a few cards, the first *)
(* of them face-down, the other cards of the deck in the stock              *)

InitRuns ==
    \E column \in {r \in Runs : \A i, j \in 1..Len(r) : r[i] = r[j] => i = j} :
      \E down \in 0..Len(column) :
        \E w \in {placeCards([EmptyWorld EXCEPT !.gs = Playing],
                             [s \in StackIds |->
                                IF s = Tableaus[1] THEN column
                                ELSE IF s = Stock
                                THEN SelectSeq(createDeck, LAMBDA c : c \notin Range(column))
                                ELSE <<>>],
                             {column[i] : i \in (down + 1)..Len(column)})} :
          /\ stacks = w.stacks
          /\ cards = w.cards
          /\ gameState = w.gs
          /\ settings = [drawCount |-> 3, allowUndo |-> TRUE, autoComplete |-> TRUE]
          /\ inputEnabled = TRUE
          /\ victoryPending = 0
          /\ ret = Ret("newGame", TRUE)
          /\ steps = 0
          /\ dealt = w.stacks

CallGetCardsFromIndex ==
    /\ steps = 0
    /\ \E s \in {Tableaus[1], Tableaus[2]}, startIndex \in (0 - 1)..(MaxRun + 1) :
          Answer("getCardsFromIndex", <<s, startIndex>>, getCardsFromIndex(W, s, startIndex))

NextRuns == CallGetCardsFromIndex

SpecRuns == InitRuns /\ [][NextRuns]_vars

----------------------------------------------------------------------------

(* The end of a game: the controller's commands after an opening in which   *)
(* the player has drawn the stock one card at a time and double-clicked     *)
(* every drawn card onto its foundation                                     *)

\* An outcome of Deck.shuffle, listed in the order dealCard pops it: the stock
\* is drawn ace of hearts first, up to the jack of diamonds
DealE ==
    << C(2,12),
       C(4,13), C(2,13),
       C(3,12), C(4,12), C(3,13),
       C(3,11), C(3,10), C(3,9), C(3,1),
       C(3,8), C(3,7), C(3,6), C(3,5), C(4,1),
       C(3,4), C(3,3), C(4,10), C(4,9), C(4,8), C(4,11),
       C(4,7), C(4,6), C(4,5), C(4,4), C(4,3), C(4,2), C(3,2),
       C(2,11), C(2,10), C(2,9), C(2,8), C(2,7), C(2,6), C(2,5), C(2,4), C(2,3),
       C(2,2), C(2,1), C(1,13), C(1,12), C(1,11), C(1,10), C(1,9), C(1,8), C(1,7),
       C(1,6), C(1,5), C(1,4), C(1,3), C(1,2), C(1,1) >>

DeckE == Reverse(DealE)

\* the worlds after a click on the stock in each world of S
StockClicked(S) == {handleStockClick(w).w : w \in S}

\* the worlds after a double click on the top card of the waste in each world of S
WasteDoubleClicked(S) ==
    {handleCardDoubleClick(w, getTopCardOf(w.stacks[Waste])).w : w \in S}

\* the worlds n rounds of stock click, double click after the worlds of S
RECURSIVE Rounds(_, _)
Rounds(S, n) ==
    IF n = 0 THEN S
    ELSE UNION {Rounds({w}, n - 1) : w \in WasteDoubleClicked(StockClicked(S))}

\* the world after newGame(DeckE) and n rounds
Opening(n) == Rounds({newGame(DeckE)}, n)

InitEndgame ==
    /\ settings = [drawCount |-> 1, allowUndo |-> TRUE, autoComplete |-> TRUE]
    /\ \E n \in {k \in 1..Len(dealForSolitaire(DeckE).stock) :
                    k + 2 >= Len(dealForSolitaire(DeckE).stock)} :
        \E w \in Opening(n) :
            /\ stacks = w.stacks
            /\ cards = w.cards
            /\ gameState = w.gs
            /\ inputEnabled = TRUE
            /\ victoryPending = 0
            /\ ret = Ret("handleCardDoubleClick", TRUE)
            /\ steps = 0
            /\ dealt = newGame(DeckE).stacks

SpecEndgame == InitEndgame /\ [][Next]_vars

----------------------------------------------------------------------------

(* executeCardFlip applied to the cards of a table late in a game: after the *)
(* opening, after the queen and after the king of diamonds have been double- *)
(* clicked onto their foundation, and with the game paused                   *)

MaxFlips == 2

\* the worlds after a double click on the top card of stack s in each world of S
TopDoubleClicked(S, s) ==
    {handleCardDoubleClick(w, getTopCardOf(w.stacks[s])).w : w \in S}

\* the worlds after GameState.togglePause in each world of S
Paused(S) == {[w EXCEPT !.gs = togglePause(w.gs)] : w \in S}

\* the worlds of S together with the worlds after double clicks on the top cards of
\* the first stacks of ss, one after the other
RECURSIVE TopsDoubleClicked(_, _)
TopsDoubleClicked(S, ss) ==
    IF ss = <<>> THEN S
    ELSE S \cup TopsDoubleClicked(TopDoubleClicked(S, Head(ss)), Tail(ss))

\* the end of an opening, the same after Q-diamonds and K-diamonds went to their
\* foundation, and each of these paused
FlipTables ==
    UNION {{w, [w EXCEPT !.gs = togglePause(w.gs)]} :
           w \in TopsDoubleClicked(Opening(Len(dealForSolitaire(DeckE).stock)),
                                   <<Tableaus[1], Tableaus[2]>>)}

InitFlip ==
    /\ settings = [drawCount |-> 1, allowUndo |-> TRUE, autoComplete |-> TRUE]
    /\ \E w \in FlipTables :
          /\ stacks = w.stacks
          /\ cards = w.cards
          /\ gameState = w.gs
          /\ inputEnabled = ~w.gs.isPaused
          /\ victoryPending = 0
          /\ ret = Ret("handleCardDoubleClick", TRUE)
          /\ steps = 0
          /\ dealt = newGame(DeckE).stacks

\* GameLogic.executeCardFlip(card) for a card of the tableau
CallExecuteCardFlip ==
    /\ steps < MaxFlips
    /\ \E s \in TableauIds : \E i \in 1..Len(stacks[s]) :
          LET r == executeCardFlip(W, stacks[s][i]) IN
          /\ stacks' = r.w.stacks
          /\ cards' = r.w.cards
          /\ gameState' = r.w.gs
          /\ ret' = [op |-> "executeCardFlip", result |-> r.ret, args |-> <<stacks[s][i]>>]
          /\ steps' = steps + 1
    /\ UNCHANGED <<settings, inputEnabled, victoryPending, dealt>>

NextFlip == CallExecuteCardFlip

SpecFlip == InitFlip /\ [][NextFlip]_vars

----------------------------------------------------------------------------

(* executeAutoComplete called again and again, with no other command in     *)
(* between, from the tables of an opening                                   *)

MaxSweeps == 3

SweepTables ==
    LET opened == UNION {Opening(n) : n \in 0..Len(dealForSolitaire(DeckE).stock)}
        queened == TopDoubleClicked(Opening(Len(dealForSolitaire(DeckE).stock)),
                                    Tableaus[1])
    IN  opened \cup queened \cup Paused(opened)

InitSweep ==
    /\ settings = [drawCount |-> 1, allowUndo |-> TRUE, autoComplete |-> TRUE]
    /\ \E w \in SweepTables :
          /\ stacks = w.stacks
          /\ cards = w.cards
          /\ gameState = w.gs
          /\ inputEnabled = ~w.gs.isPaused
          /\ victoryPending = 0
          /\ ret = Ret("newGame", TRUE)
          /\ steps = 0
          /\ dealt = newGame(DeckE).stacks

\* GameLogic.executeAutoComplete(allStacks); steps counts the calls up to MaxSweeps
CallExecuteAutoComplete ==
    /\ steps <= MaxSweeps
    /\ \E r \in {executeAutoComplete(W)} :
          /\ stacks' = r.w.stacks
          /\ cards' = r.w.cards
          /\ gameState' = r.w.gs
          /\ ret' = Ret("executeAutoComplete", r.ret)
    /\ steps' = IF steps < MaxSweeps THEN steps + 1 ELSE steps
    /\ UNCHANGED <<settings, inputEnabled, victoryPending, dealt>>

NextSweep == CallExecuteAutoComplete

\* the caller keeps calling, with no other command in between
SpecSweep == InitSweep /\ [][NextSweep]_vars

----------------------------------------------------------------------------

(* A session: the commands of the game together with newGame, restartGame,  *)
(* the window's events and the end of the victory animation, late in a game *)
(* in which the player has drawn the hearts one at a time and pressed       *)
(* auto-complete after each draw                                            *)

\* An outcome of Deck.shuffle, listed in the order dealCard pops it: the stock
\* is drawn ace of hearts first, up to the queen of hearts
DealF ==
    << C(1,13),
       C(3,13), C(4,12),
       C(3,12), C(3,11), C(2,11),
       C(3,10), C(3,9), C(3,8), C(4,10),
       C(3,7), C(3,6), C(3,5), C(3,4), C(2,9),
       C(3,3), C(3,2), C(3,1), C(4,13), C(4,11), C(4,9),
       C(4,8), C(4,7), C(4,6), C(4,5), C(4,4), C(4,3), C(4,2),
       C(4,1), C(2,1), C(2,2), C(2,3), C(2,4), C(2,5), C(2,6), C(2,7), C(2,8),
       C(2,10), C(2,12), C(2,13), C(1,12), C(1,11), C(1,10), C(1,9), C(1,8), C(1,7),
       C(1,6), C(1,5), C(1,4), C(1,3), C(1,2), C(1,1) >>

DeckF == Reverse(DealF)

\* the worlds after GameController.autoComplete in each world of S
AutoCompleted(S) == {autoComplete(w).w : w \in S}

\* the worlds n rounds of stock click, auto-complete after the worlds of S
RECURSIVE SweepRounds(_, _)
SweepRounds(S, n) ==
    IF n = 0 THEN S
    ELSE UNION {SweepRounds({w}, n - 1) : w \in AutoCompleted(StockClicked(S))}

\* the worlds after the top card of stack from is dragged onto stack to
TopDragged(S, from, to) ==
    {handleCardMove(w, getTopCardOf(w.stacks[from]), from, to).w : w \in S}

\* the worlds after the top cards of the stacks froms are dragged onto stack to,
\* one after the other
RECURSIVE TopsDragged(_, _, _)
TopsDragged(S, froms, to) ==
    IF froms = <<>> THEN S
    ELSE TopsDragged(TopDragged(S, Head(froms), to), Tail(froms), to)

\* newGame(DeckF); the twelve hearts below the king drawn and auto-completed; then
\* the queen of spades dragged onto the king of hearts and the jack of diamonds
\* onto the queen; and then the ten of spades onto the jack
SessionTables ==
    UNION {TopsDragged(SweepRounds({newGame(DeckF)}, CARDS_PER_SUIT - 1),
                       SubSeq(<<Tableaus[2], Tableaus[3], Tableaus[4]>>, 1, k),
                       Tableaus[1]) : k \in 2..3}

InitSession ==
    /\ settings = [drawCount |-> 1, allowUndo |-> TRUE, autoComplete |-> TRUE]
    /\ \E w \in SessionTables :
          /\ stacks = w.stacks
          /\ cards = w.cards
          /\ gameState = w.gs
          /\ inputEnabled = TRUE
          /\ victoryPending = 0
          /\ ret = Ret("handleCardMove", TRUE)
          /\ steps = 0
          /\ dealt = newGame(DeckF).stacks

\* the menu's new game
NewGame ==
    /\ steps < MaxSteps
    /\ \E deck \in Decks : \E w \in {GC_newGame(W, deck)} :
          /\ Commit(w, "newGame", TRUE, 0)
          /\ dealt' = w.stacks
    /\ UNCHANGED <<settings, inputEnabled>>

\* the menu's restart
RestartGame ==
    /\ steps < MaxSteps
    /\ \E r \in {restartGame(W)} : Commit(r.w, "restartGame", r.ret, 0)
    /\ UNCHANGED <<settings, inputEnabled, dealt>>

\* the victory animation ends and onGameComplete goes on after its await
VictoryDone ==
    /\ steps < MaxSteps
    /\ victoryPending > 0
    /\ gameState' = completeGame(gameState)
    /\ victoryPending' = victoryPending - 1
    /\ ret' = Ret("onGameComplete", TRUE)
    /\ steps' = steps + 1
    /\ UNCHANGED <<stacks, cards, settings, inputEnabled, dealt>>

\* GameController.updateStacksScale(scale)
UpdateStacksScale ==
    /\ steps < MaxSteps
    /\ gameState' = updateStacksScale(gameState)
    /\ ret' = Ret("updateStacksScale", TRUE)
    /\ steps' = steps + 1
    /\ UNCHANGED <<stacks, cards, settings, inputEnabled, victoryPending, dealt>>

\* the window's focus event on a paused game, and the timer it sets
WindowFocus ==
    /\ steps < MaxSteps
    /\ gameState.isPaused
    /\ gameState' = [gameState EXCEPT !.isPaused = FALSE]
    /\ ret' = Ret("focus", TRUE)
    /\ steps' = steps + 1
    /\ UNCHANGED <<stacks, cards, settings, inputEnabled, victoryPending, dealt>>

NextSession ==
    \/ Next
    \/ NewGame
    \/ RestartGame
    \/ VictoryDone
    \/ UpdateStacksScale
    \/ WindowFocus

SpecSession == InitSession /\ [][NextSession]_vars

----------------------------------------------------------------------------

(* Properties *)

\* a card as the rules see it: the number of its suit, its rank 1..13, its colour
SuitNo(c) == ((c - 1) \div CARDS_PER_SUIT) + 1
RankNo(c) == ((c - 1) % CARDS_PER_SUIT) + 1
Red(c) == SuitNo(c) \in {1, 2}

\* the places <<stack, position>> of the stack arrays that hold card c
Places(c) ==
    {p \in UNION {{<<s, i>> : i \in 1..Len(stacks[s])} : s \in StackIds} :
        stacks[p[1]][p[2]] = c}

\* the game is in the playing state
InPlay == gameState.isGameStarted /\ ~gameState.isPaused /\ ~gameState.isGameCompleted

\* C1: in every state reachable from a deal, each of the 52 cards is in exactly one
\* stack exactly once: none is duplicated across or within stacks, none is missing.
C1_EachCardInOnePlace == \A c \in CardIds : Cardinality(Places(c)) = 1

\* C2: in every reachable state each foundation pile, read bottom to top, holds the
\* cards of one suit with the ranks 1, 2, ..., n in order.
C2_FoundationsAscendInSuit ==
    \A f \in FoundationIds : \A i \in 1..Len(stacks[f]) :
        /\ SuitNo(stacks[f][i]) = SuitNo(stacks[f][1])
        /\ RankNo(stacks[f][i]) = i

\* C10: while the game is not in the playing state, the commands move, moveRun,
\* drawFromStock, autoComplete and undo return false / an empty list and leave the
\* stacks, the move history and the counters unchanged.
C10_NoCommandWhileNotPlaying ==
    [][(~InPlay /\ ret'.op \in {"handleCardMove", "handleMultiCardMove", "handleStockClick",
                                "autoComplete", "undoLastMove"})
        => /\ IF ret'.op = "handleStockClick" THEN ret'.result = <<>>
              ELSE ret'.result = FALSE
           /\ stacks' = stacks
           /\ gameState'.moveHistory = gameState.moveHistory
           /\ gameState'.moves = gameState.moves
           /\ gameState'.foundationCards = gameState.foundationCards]_vars

\* C3: canAcceptCard on a foundation is true exactly when the pile is empty and the
\* card's rank is 1, or the pile is non-empty and the card has the suit of the top
\* card and the top card's rank + 1.
C3_FoundationAcceptance ==
    (ret.op = "canAcceptCard" /\ StackType(ret.args[1]) = "foundation") =>
        LET pile == stacks[ret.args[1]]
            c == ret.args[2]
        IN  ret.result =
                (IF pile = <<>> THEN RankNo(c) = 1
                 ELSE /\ SuitNo(c) = SuitNo(pile[Len(pile)])
                      /\ RankNo(c) = RankNo(pile[Len(pile)]) + 1)

\* canAcceptCard has accepted the next card of the suit on a non-empty foundation
C3_Witness ==
    /\ ret.op = "canAcceptCard"
    /\ StackType(ret.args[1]) = "foundation"
    /\ stacks[ret.args[1]] # <<>>
    /\ ret.result = TRUE

\* C4: canAcceptCard on a tableau is true exactly when the column is empty and the
\* card's rank is 13, or the column is non-empty, its top card is face-up, the card's
\* colour is opposite to the top card's and its rank is the top card's rank - 1; it
\* rejects every card on a face-down top, and a red 9 on a red 10.
C4_TableauAcceptance ==
    (ret.op = "canAcceptCard" /\ StackType(ret.args[1]) = "tableau") =>
        LET column == stacks[ret.args[1]]
            c == ret.args[2]
            top == column[Len(column)]
        IN  /\ ret.result =
                (IF column = <<>> THEN RankNo(c) = 13
                 ELSE /\ cards[top].faceUp
                      /\ Red(c) # Red(top)
                      /\ RankNo(c) = RankNo(top) - 1)
            /\ (column # <<>> /\ ~cards[top].faceUp) => ret.result = FALSE
            /\ (column # <<>> /\ Red(c) /\ RankNo(c) = 9 /\ Red(top) /\ RankNo(top) = 10)
                  => ret.result = FALSE

\* canAcceptCard has accepted a black 9 on a face-up red 10
C4_Witness ==
    /\ ret.op = "canAcceptCard"
    /\ StackType(ret.args[1]) = "tableau"
    /\ stacks[ret.args[1]] # <<>>
    /\ RankNo(ret.args[2]) = 9
    /\ ret.result = TRUE

\* C5: validateMove is false whenever the game is not in the playing state, whenever
\* the card is face-down, and whenever the destination is the waste or the stock.
C5_ValidateMoveRejects ==
    (ret.op = "validateMove") =>
        LET c == ret.args[1]
            to == ret.args[3]
        IN  (~InPlay \/ ~cards[c].faceUp \/ StackType(to) \in {"waste", "stock"})
                => ret.result = FALSE

\* validateMove has rejected, in a paused game, a face-up king offered to an empty
\* tableau column
C5_Witness ==
    /\ ret.op = "validateMove"
    /\ gameState.isGameStarted /\ gameState.isPaused
    /\ cards[ret.args[1]].faceUp
    /\ RankNo(ret.args[1]) = 13
    /\ StackType(ret.args[3]) = "tableau"
    /\ stacks[ret.args[3]] = <<>>
    /\ ret.result = FALSE

\* C6: validateMultiCardMove is true exactly when cards is non-empty, from is a
\* tableau stack, every adjacent pair of cards is face-up, alternates colour and
\* descends in rank by exactly 1, and the first card satisfies validateMove against to.
C6_ValidateRun ==
    (ret.op = "validateMultiCardMove") =>
        LET cs == ret.args[1]
            from == ret.args[2]
            to == ret.args[3]
        IN  ret.result =
                (/\ cs # <<>>
                 /\ StackType(from) = "tableau"
                 /\ \A i \in 1..(Len(cs) - 1) :
                        /\ cards[cs[i]].faceUp /\ cards[cs[i + 1]].faceUp
                        /\ Red(cs[i]) # Red(cs[i + 1])
                        /\ RankNo(cs[i]) = RankNo(cs[i + 1]) + 1
                 /\ validateMove(W, cs[1], from, to))

\* validateMultiCardMove has accepted a run of three cards
C6_Witness ==
    /\ ret.op = "validateMultiCardMove"
    /\ Len(ret.args[1]) = 3
    /\ ret.result = TRUE

\* the number of calls that empty a stock of n cards, drawCount cards at a time
CallsToEmpty(n) == (n + settings.drawCount - 1) \div settings.drawCount

\* C7: on a non-empty stock, drawFromStock moves exactly min(drawCount, stock size)
\* cards from the stock to the waste, one at a time from the stock top, each turned
\* face-up, so that the last card drawn is the waste's new top; it returns the drawn
\* cards in draw order, and no other stack changes.
C7_DrawMovesTopCards ==
    [][(ret'.op = "drawFromStock" /\ stacks[Stock] # <<>>) =>
        LET n == Len(stacks[Stock])
            k == IF settings.drawCount < n THEN settings.drawCount ELSE n
            drawn == [i \in 1..k |-> stacks[Stock][n + 1 - i]]
        IN  /\ stacks'[Stock] = SubSeq(stacks[Stock], 1, n - k)
            /\ stacks'[Waste] = stacks[Waste] \o drawn
            /\ \A i \in 1..k : cards'[drawn[i]].faceUp
            /\ stacks'[Waste][Len(stacks'[Waste])] = drawn[k]
            /\ ret'.result = drawn
            /\ \A s \in StackIds \ {Stock, Waste} : stacks'[s] = stacks[s]]_vars

\* drawFromStock has drawn three cards onto a non-empty waste and left some in the stock
C7_Witness ==
    /\ ret.op = "drawFromStock"
    /\ steps = 1
    /\ dealt[Waste] # <<>>
    /\ Len(dealt[Stock]) > 3
    /\ Len(ret.result) = 3
    /\ Len(stacks[Waste]) = Len(dealt[Waste]) + 3

\* C8 as stated: with drawCount = 3, 5 cards in the stock and an empty waste, three
\* successive drawFromStock calls move 3, 2 and 0 cards.
C8_ThreeTwoZero ==
    (settings.drawCount = 3 /\ Len(dealt[Stock]) = 5 /\ dealt[Waste] = <<>>
     /\ ret.op = "drawFromStock") =>
        /\ steps = 1 => (Len(ret.result) = 3 /\ Len(stacks[Stock]) = 2
                         /\ Len(stacks[Waste]) = 3)
        /\ steps = 2 => (Len(ret.result) = 2 /\ Len(stacks[Stock]) = 0
                         /\ Len(stacks[Waste]) = 5)
        /\ steps = 3 => (Len(ret.result) = 0 /\ Len(stacks[Stock]) = 0
                         /\ Len(stacks[Waste]) = 5)

\* C8, amended: with drawCount = 3, 5 cards in the stock and an empty waste, the first
\* two drawFromStock calls move 3 and 2 cards to the waste, and the third, finding
\* the stock empty, recycles: it moves the 5 waste cards back to the stock and
\* returns them.
C8_ThreeTwoRecycle ==
    (settings.drawCount = 3 /\ Len(dealt[Stock]) = 5 /\ dealt[Waste] = <<>>
     /\ ret.op = "drawFromStock") =>
        /\ steps = 1 => (Len(ret.result) = 3 /\ Len(stacks[Stock]) = 2
                         /\ Len(stacks[Waste]) = 3)
        /\ steps = 2 => (Len(ret.result) = 2 /\ Len(stacks[Stock]) = 0
                         /\ Len(stacks[Waste]) = 5)
        /\ steps = 3 => (Len(ret.result) = 5 /\ Len(stacks[Stock]) = 5
                         /\ Len(stacks[Waste]) = 0)

\* the third of three calls on a stock of 5 with drawCount = 3 and an empty waste
C8_Witness ==
    /\ settings.drawCount = 3 /\ Len(dealt[Stock]) = 5 /\ dealt[Waste] = <<>>
    /\ ret.op = "drawFromStock"
    /\ steps = 3

\* C9: for drawCount 1 or 3 and any stock with an empty waste, calling drawFromStock
\* until the stock is empty and then once more leaves the waste empty and the stock
\* holding the same cards in the same bottom-to-top order as before the first draw,
\* all face-down.
C9_RecycleRestoresStock ==
    (dealt[Waste] = <<>> /\ ret.op = "drawFromStock"
     /\ steps = CallsToEmpty(Len(dealt[Stock])) + 1) =>
        /\ stacks[Waste] = <<>>
        /\ stacks[Stock] = dealt[Stock]
        /\ \A i \in 1..Len(stacks[Stock]) : ~cards[stacks[Stock][i]].faceUp

\* a stock of at least four cards drawn three at a time until empty, then recycled
C9_Witness ==
    /\ dealt[Waste] = <<>>
    /\ Len(dealt[Stock]) >= 4
    /\ settings.drawCount = 3
    /\ ret.op = "drawFromStock"
    /\ steps = CallsToEmpty(Len(dealt[Stock])) + 1
    /\ Len(ret.result) = Len(dealt[Stock])

\* C11: drawFromStock called when both the stock and the waste are empty returns an
\* empty list, records no move, and leaves every stack and the move counter unchanged.
C11_DrawOnEmptyIsNoOp ==
    [][(ret'.op = "drawFromStock" /\ stacks[Stock] = <<>> /\ stacks[Waste] = <<>>) =>
        /\ ret'.result = <<>>
        /\ gameState'.moveHistory = gameState.moveHistory
        /\ gameState'.moves = gameState.moves
        /\ stacks' = stacks
        /\ cards' = cards]_vars

\* drawFromStock has been called on a table dealt with an empty stock and an empty waste
C11_Witness ==
    /\ ret.op = "drawFromStock"
    /\ steps >= 1
    /\ dealt[Stock] = <<>>
    /\ dealt[Waste] = <<>>
    /\ stacks[Stock] = <<>>
    /\ stacks[Waste] = <<>>

\* C12: dealing a 52-card deck leaves tableau columns 0..6 holding 1..7 cards with
\* only the top (last) card of each column face-up, the remaining 24 cards in the
\* stock all face-down, and the waste and the foundations empty.
C12_DealLayout ==
    (steps = 0 /\ ret.op = "newGame") =>
        /\ \A col \in 0..6 :
              LET t == stacks[Tableaus[col + 1]] IN
              /\ Len(t) = col + 1
              /\ \A i \in 1..Len(t) : cards[t[i]].faceUp <=> (i = Len(t))
        /\ Len(stacks[Stock]) = 24
        /\ \A i \in 1..24 : ~cards[stacks[Stock][i]].faceUp
        /\ stacks[Waste] = <<>>
        /\ \A i \in 1..4 : stacks[Foundations[i]] = <<>>
        /\ Cardinality(UNION {Range(stacks[s]) : s \in StackIds}) = 52

\* a shuffled deck has just been dealt and the last column's top card lies face-up
C12_Witness ==
    /\ steps = 0
    /\ ret.op = "newGame"
    /\ Len(stacks[Tableaus[7]]) = 7
    /\ cards[stacks[Tableaus[7]][7]].faceUp
    /\ stacks[Tableaus[7]][7] # createDeck[Len(createDeck) - 27]

\* the stacks as the hint rules see them
TopOf(s) == stacks[s][Len(stacks[s])]
FaceUpTop(s) == stacks[s] # <<>> /\ cards[TopOf(s)].faceUp
FoundationTakes(f, c) ==
    IF stacks[f] = <<>> THEN RankNo(c) = 1
    ELSE SuitNo(c) = SuitNo(TopOf(f)) /\ RankNo(c) = RankNo(TopOf(f)) + 1
TableauTakes(t, c) ==
    IF stacks[t] = <<>> THEN RankNo(c) = 13
    ELSE cards[TopOf(t)].faceUp /\ Red(c) # Red(TopOf(t)) /\ RankNo(c) = RankNo(TopOf(t)) - 1

\* the pairs <<source, destination>>, sources first, both in the order given
Pairs(froms, tos) ==
    [k \in 1..(Len(froms) * Len(tos)) |->
        <<froms[((k - 1) \div Len(tos)) + 1], tos[((k - 1) % Len(tos)) + 1]>>]

\* one hint per pair whose source has a face-up top card that the destination takes
MoveHints(froms, tos, Takes(_, _)) ==
    LET ps == SelectSeq(Pairs(froms, tos),
                        LAMBDA p : p[1] # p[2] /\ FaceUpTop(p[1]) /\ Takes(p[2], TopOf(p[1])))
    IN  [i \in 1..Len(ps) |->
           [card |-> TopOf(ps[i][1]), fromStack |-> ps[i][1], toStack |-> ps[i][2]]]

\* one flip hint per tableau whose top card is face-down
FlipList ==
    LET ts == SelectSeq(Tableaus, LAMBDA t : stacks[t] # <<>> /\ ~cards[TopOf(t)].faceUp)
    IN  [i \in 1..Len(ts) |->
           [card |-> TopOf(ts[i]), fromStack |-> ts[i], toStack |-> ts[i], type |-> "flip"]]

\* C13: isGameBlocked is true exactly when findHints is empty, the stock is empty and
\* the waste is empty; it is false whenever the stock or the waste is non-empty,
\* even when there are no hints.
C13_BlockedIffNothingLeft ==
    ret.op = "isGameBlocked" =>
        /\ ret.result = (/\ findHints(W).ret = <<>>
                         /\ stacks[Stock] = <<>>
                         /\ stacks[Waste] = <<>>)
        /\ (stacks[Stock] # <<>> \/ stacks[Waste] # <<>>) => ret.result = FALSE

\* isGameBlocked has answered true on a table with cards left on the tableau
C13_Witness ==
    /\ ret.op = "isGameBlocked"
    /\ ret.result = TRUE
    /\ stacks[Tableaus[1]] # <<>>
    /\ MoveHints(<<Stock, Waste>> \o Tableaus, Foundations, FoundationTakes) = <<>>

\* C14: isGameComplete is true exactly when the four foundations together hold 52
\* cards, and false for every smaller total.
C14_CompleteIffFiftyTwo ==
    ret.op = "isGameComplete" =>
        ret.result = (Len(stacks[Foundations[1]]) + Len(stacks[Foundations[2]])
                      + Len(stacks[Foundations[3]]) + Len(stacks[Foundations[4]]) = 52)

\* isGameComplete has answered true
C14_Witness ==
    /\ ret.op = "isGameComplete"
    /\ ret.result = TRUE
    /\ \A i \in 1..4 : Len(stacks[Foundations[i]]) = 13

\* C15: findHints returns, in this order: one hint per (face-up top card of a
\* non-foundation stack, accepting foundation) pair; the waste-top card to each
\* accepting tableau; each tableau's face-up top card to each other accepting
\* tableau; one flip hint per tableau whose top card is face-down. Within each group
\* sources and destinations come in stack-collection order (stock, waste,
\* foundations 0-3, tableaus 0-6).
C15_HintOrder ==
    ret.op = "findHints" =>
        ret.result = MoveHints(<<Stock, Waste>> \o Tableaus, Foundations, FoundationTakes)
                     \o MoveHints(<<Waste>>, Tableaus, TableauTakes)
                     \o MoveHints(Tableaus, Tableaus, TableauTakes)
                     \o FlipList

\* findHints has returned hints of all four groups
C15_Witness ==
    /\ ret.op = "findHints"
    /\ MoveHints(<<Stock, Waste>> \o Tableaus, Foundations, FoundationTakes) # <<>>
    /\ MoveHints(<<Waste>>, Tableaus, TableauTakes) # <<>>
    /\ MoveHints(Tableaus, Tableaus, TableauTakes) # <<>>
    /\ FlipList # <<>>
    /\ Len(ret.result) >= 4

\* the priority classes of a hint
IsFlip(h) == "type" \in DOMAIN h /\ h.type = "flip"
IsFoundationMove(h) == h.toStack \in FoundationIds
IsLowFoundationMove(h) == IsFoundationMove(h) /\ RankNo(h.card) <= 2
IsTableauMove(h) == h.toStack \in TableauIds /\ ~IsFlip(h)
IsToEmptyColumn(h) == IsTableauMove(h) /\ stacks[h.toStack] = <<>>
IsUncovering(h) ==
    /\ IsTableauMove(h)
    /\ h.fromStack \in TableauIds
    /\ Len(stacks[h.fromStack]) >= 2
    /\ ~cards[stacks[h.fromStack][Len(stacks[h.fromStack]) - 1]].faceUp

Some(hs, P(_)) == \E i \in 1..Len(hs) : P(hs[i])
First(hs, P(_)) == hs[CHOOSE i \in 1..Len(hs) : P(hs[i]) /\ \A j \in 1..(i - 1) : ~P(hs[j])]

\* the first hint of the highest non-empty priority class
BestOf(hs) ==
    IF Some(hs, IsLowFoundationMove) THEN First(hs, IsLowFoundationMove)
    ELSE IF Some(hs, IsFoundationMove) THEN First(hs, IsFoundationMove)
    ELSE IF Some(hs, IsFlip) THEN First(hs, IsFlip)
    ELSE IF Some(hs, IsToEmptyColumn) THEN First(hs, IsToEmptyColumn)
    ELSE IF Some(hs, IsUncovering) THEN First(hs, IsUncovering)
    ELSE First(hs, IsTableauMove)

\* C16: when findHints is non-empty, suggestBestMove returns the first hint (in
\* findHints order) of the highest non-empty priority class: (1) foundation moves of
\* rank <= 2, then any other foundation move; (2) flip moves; (3) tableau moves into
\* an empty column; (4) tableau moves from a tableau whose card directly beneath the
\* moved card is face-down; (5) any remaining tableau move. The result's type is
\* 'flip' for a flip and 'card_move' otherwise.
C16_BestMovePriority ==
    (ret.op = "suggestBestMove" /\ findHints(W).ret # <<>>) =>
        LET best == BestOf(findHints(W).ret) IN
        /\ ret.result.card = best.card
        /\ ret.result.fromStack = best.fromStack
        /\ ret.result.toStack = best.toStack
        /\ ret.result.type = (IF IsFlip(best) THEN "flip" ELSE "card_move")

\* suggestBestMove has returned a move of class (4) that is not the first hint, the
\* first hint being a move of class (5)
C16_Witness ==
    /\ ret.op = "suggestBestMove"
    /\ findHints(W).ret # <<>>
    /\ ~IsUncovering(findHints(W).ret[1])
    /\ IsTableauMove(findHints(W).ret[1])
    /\ IsUncovering(BestOf(findHints(W).ret))
    /\ ret.result.card = BestOf(findHints(W).ret).card

\* C17: when findHints is empty, suggestBestMove returns 'draw_stock' if the stock is
\* non-empty, otherwise 'recycle_waste' if the waste is non-empty, otherwise none;
\* hence it returns none exactly in the states where isGameBlocked is true.
C17_NoHintSuggestion ==
    ret.op = "suggestBestMove" =>
        /\ findHints(W).ret = <<>> =>
              ret.result = (IF stacks[Stock] # <<>>
                            THEN [type |-> "draw_stock", fromStack |-> Stock, toStack |-> Waste]
                            ELSE IF stacks[Waste] # <<>>
                            THEN [type |-> "recycle_waste", fromStack |-> Waste,
                                  toStack |-> Stock]
                            ELSE [type |-> "null"])
        /\ (ret.result.type = "null") <=> isGameBlocked(W).ret

\* suggestBestMove has suggested recycling the waste
C17_Witness ==
    /\ ret.op = "suggestBestMove"
    /\ findHints(W).ret = <<>>
    /\ stacks[Stock] = <<>>
    /\ stacks[Waste] # <<>>
    /\ ret.result.type = "recycle_waste"

\* C18: validateMove, validateMultiCardMove, findHints, suggestBestMove,
\* isGameBlocked and isGameComplete are read-only: they leave all stacks (contents,
\* order, face state), the history, the counters and the flags unchanged.
C18_QueriesReadOnly ==
    [][ret'.op \in {"validateMove", "validateMultiCardMove", "findHints",
                    "suggestBestMove", "isGameBlocked", "isGameComplete"} =>
        /\ stacks' = stacks
        /\ cards' = cards
        /\ gameState' = gameState]_vars

\* findHints has been asked twice on a table with a face-down top card
C18_Witness ==
    /\ ret.op = "findHints"
    /\ steps = 2
    /\ FlipList # <<>>
    /\ Some(ret.result, IsFlip)

C20_HistoryBounded ==
    [][LET h == gameState.moveHistory
           h2 == gameState'.moveHistory
       IN  /\ Len(h2) <= 100
           /\ (ret'.op = "recordMove" /\ gameState.isGameStarted) =>
                 /\ h2 # <<>>
                 /\ h2[Len(h2)].moveNumber = gameState.moves + 1
                 /\ SubSeq(h2, 1, Len(h2) - 1) = (IF Len(h) = 100 THEN Tail(h) ELSE h)
           /\ (ret'.op = "undoLastMove" /\ h # <<>> /\ settings.allowUndo) =>
                 /\ h2 = SubSeq(h, 1, Len(h) - 1)
                 /\ ret'.result = <<h[Len(h)]>>
           /\ \A i \in 1..(Len(h2) - 1) : h2[i].moveNumber + 1 = h2[i + 1].moveNumber]_vars

\* 101 records, an undo and one more record: the history is full and its oldest
\* record is the second one recorded
C20_Witness ==
    /\ ret.op = "recordMove"
    /\ steps = 103
    /\ Len(gameState.moveHistory) = 100
    /\ gameState.moveHistory[1].moveNumber = 2
    /\ gameState.moveHistory[100].moveNumber = 101

\* C21: undoLastMove removes and returns the most recently recorded move still in
\* the history (last in, first out) and shortens the history by exactly one; when
\* the history is empty or undo is disabled it returns none and changes neither the
\* history nor the move count.
C21_UndoPopsNewest ==
    [][ret'.op = "undoLastMove" =>
        LET h == gameState.moveHistory
            h2 == gameState'.moveHistory
        IN  IF h # <<>> /\ settings.allowUndo
            THEN /\ ret'.result = <<h[Len(h)]>>
                 /\ Len(h2) = Len(h) - 1
                 /\ \A i \in 1..Len(h2) : h2[i] = h[i]
            ELSE /\ ret'.result = <<>>
                 /\ h2 = h
                 /\ gameState'.moves = gameState.moves]_vars

\* undoLastMove has returned the newest of at least three records
C21_Witness ==
    /\ ret.op = "undoLastMove"
    /\ ret.result # <<>>
    /\ Len(gameState.moveHistory) >= 2
    /\ ret.result[1].moveNumber = Len(gameState.moveHistory) + 1

\* C22: undo is a metadata-only operation: for every move kind (card_move,
\* multi_card_move, stock_to_waste, waste_to_stock, card_flip), undoing it leaves
\* every stack's contents and order and every card's face state exactly as they were
\* before the undo.
C22_UndoLeavesStacks ==
    [][ret'.op = "GameController.undoLastMove" =>
        /\ stacks' = stacks
        /\ \A c \in CardIds : cards'[c].faceUp = cards[c].faceUp]_vars

\* the controller has undone a card_flip, the fifth of five moves of the five kinds
C22_Witness ==
    /\ ret.op = "GameController.undoLastMove"
    /\ ret.result = TRUE
    /\ steps = 6
    /\ Len(gameState.moveHistory) = 4
    /\ gameState.moveHistory[4].type = "waste_to_stock"

\* C23: every successful mutation made while playing appends exactly one Move record
\* of the matching kind to the history: a single-card move, a run move, a stock
\* draw, a waste recycle, and a flip of a face-down tableau top card (whether done
\* through executeCardFlip or by clicking the card).
C23_EveryMutationRecorded ==
    [][InPlay =>
        LET h == gameState.moveHistory
            h2 == gameState'.moveHistory
            one(kind) == Len(h2) = Len(h) + 1 /\ h2[Len(h2)].type = kind
        IN  /\ (ret'.op \in {"handleCardMove", "handleCardDoubleClick"} /\ ret'.result = TRUE)
                  => one("card_move")
            /\ (ret'.op = "handleMultiCardMove" /\ ret'.result = TRUE)
                  => one("multi_card_move")
            /\ (ret'.op = "handleStockClick" /\ ret'.result # <<>>)
                  => one(IF stacks[Stock] # <<>> THEN "stock_to_waste" ELSE "waste_to_stock")
            /\ ret'.op = "flip" => one("card_flip")]_vars

IsRun(seq) ==
    /\ \A j \in 1..Len(seq) : cards[seq[j]].faceUp
    /\ \A j \in 1..(Len(seq) - 1) :
          Red(seq[j]) # Red(seq[j + 1]) /\ RankNo(seq[j]) = RankNo(seq[j + 1]) + 1

\* the longest run of column that starts at 0-based index i
LongestRunFrom(column, i) ==
    LET n == CHOOSE m \in 0..(Len(column) - i) :
                /\ IsRun(SubSeq(column, i + 1, i + m))
                /\ \A k \in (m + 1)..(Len(column) - i) : ~IsRun(SubSeq(column, i + 1, i + k))
    IN  SubSeq(column, i + 1, i + n)

\* C25: for a tableau stack and an index i within range, getCardsFromIndex(i)
\* returns the longest sequence of consecutive cards starting at i in which every
\* card is face-up and each successive pair alternates colour and descends in rank
\* by exactly 1, stopping at the first face-down card or rule violation; for an
\* out-of-range index it returns the empty list.
C25_LongestRunFromIndex ==
    ret.op = "getCardsFromIndex" =>
        LET column == stacks[ret.args[1]]
            i == ret.args[2]
        IN  ret.result = (IF i < 0 \/ i >= Len(column) THEN <<>>
                          ELSE LongestRunFrom(column, i))

\* C26: the engine's operations (single-card move, run move, draw/recycle, flip,
\* autoComplete) only read the game-progress counters owned by the game-state object
\* (move count, foundation-card count) and never modify them.
C26_EngineLeavesCounters ==
    [][ret'.op = "drawFromStock" =>
        /\ gameState'.moves = gameState.moves
        /\ gameState'.foundationCards = gameState.foundationCards]_vars

\* C27: the validator's own rules and the stack's acceptance rules agree on all
\* inputs: for every face-up card and every destination stack state, while the game
\* is playing, validateMove(card, from, to) equals to.canAcceptCard(card).
C27_ValidatorAgreesWithStack ==
    (ret.op = "validateMove" /\ InPlay /\ cards[ret.args[1]].faceUp) =>
        ret.result = canAcceptCard(W, ret.args[3], ret.args[1])

\* validateMove has accepted a face-up card on a non-empty tableau column
C27_Witness ==
    /\ ret.op = "validateMove"
    /\ InPlay
    /\ cards[ret.args[1]].faceUp
    /\ ret.args[3] \in TableauIds
    /\ stacks[ret.args[3]] # <<>>
    /\ ret.result = TRUE

\* C28: a single-card move succeeds only when the card is the current top card of
\* fromStack; on success exactly that card leaves fromStack and becomes the top of
\* toStack, and every other stack and the order and face state of all other cards
\* are unchanged. This holds for moves issued by dragging and by double-clicking.
C28_OnlyTopCardMoves ==
    [][(ret'.op \in {"handleCardMove", "handleCardDoubleClick"} /\ ret'.result = TRUE) =>
        \E from \in StackIds, to \in StackIds :
            /\ from # to
            /\ stacks[from] # <<>>
            /\ stacks'[from] = SubSeq(stacks[from], 1, Len(stacks[from]) - 1)
            /\ stacks'[to] = Append(stacks[to], stacks[from][Len(stacks[from])])
            /\ \A s \in StackIds \ {from, to} : stacks'[s] = stacks[s]
            /\ \A c \in CardIds \ {stacks[from][Len(stacks[from])]} :
                  cards'[c].faceUp = cards[c].faceUp]_vars


\* C30: in every state reachable through the controller's commands the counter
\* gameState.foundationCards equals the total number of cards in the four
\* foundation stacks.
C30_FoundationCounterMatches ==
    gameState.foundationCards =
        Len(stacks[Foundations[1]]) + Len(stacks[Foundations[2]])
            + Len(stacks[Foundations[3]]) + Len(stacks[Foundations[4]])


\* C29: the game is marked completed only in a state where the four foundation
\* stacks together hold all 52 cards; while fewer than 52 cards are on the
\* foundations a started, unpaused game is not completed.
C29_CompletedOnlyWhenFull ==
    gameState.isGameCompleted =>
        Len(stacks[Foundations[1]]) + Len(stacks[Foundations[2]])
            + Len(stacks[Foundations[3]]) + Len(stacks[Foundations[4]]) = TOTAL_CARDS


\* C31: whenever isGameBlocked returns true there is no legal command left in that
\* state: no single-card move of a top card from any stack, no run move accepted
\* by validateMultiCardMove, no flip of a face-down tableau top, and no draw or
\* recycle would succeed.
C31_BlockedMeansNoCommand ==
    (ret.op = "isGameBlocked" /\ ret.result = TRUE /\ isPlaying(gameState)) =>
        /\ \A from \in StackIds, to \in StackIds :
              (from # to /\ stacks[from] # <<>>) =>
                  ~validateMove(W, getTopCard(W, from), from, to)
        /\ \A from \in TableauIds, to \in StackIds :
              \A i \in 0..(Len(stacks[from]) - 1) :
                  (from # to /\ Len(getCardsFromIndex(W, from, i)) > 1) =>
                      ~validateMultiCardMove(W, getCardsFromIndex(W, from, i), from, to)
        /\ findCardsToFlip(W, Tableaus) = <<>>
        /\ stacks[Stock] = <<>> /\ stacks[Waste] = <<>>


\* C32: one executeAutoComplete invocation performs a single sweep: only the (top
\* card, foundation) pairs that qualified at the start of the call are attempted,
\* so a card that becomes a top card or becomes eligible during the call is not
\* moved, and at most one card leaves each source stack per call.
C32_AutoCompleteSingleSweep ==
    [][ret'.op = "autoComplete" =>
        LET pairs == findAutoCompletableCards(W) IN
        /\ \A s \in StackIds \ FoundationIds :
              \/ stacks'[s] = stacks[s]
              \/ /\ stacks[s] # <<>>
                 /\ stacks'[s] = SubSeq(stacks[s], 1, Len(stacks[s]) - 1)
                 /\ \E i \in 1..Len(pairs) :
                       pairs[i].card = getTopCard(W, s) /\ pairs[i].fromStack = s
        /\ \A f \in FoundationIds :
              /\ Len(stacks'[f]) >= Len(stacks[f])
              /\ SubSeq(stacks'[f], 1, Len(stacks[f])) = stacks[f]
              /\ \A j \in (Len(stacks[f]) + 1)..Len(stacks'[f]) :
                    \E i \in 1..Len(pairs) :
                       pairs[i].card = stacks'[f][j] /\ pairs[i].toStack = f]_vars

\* autoComplete has moved a card off a tableau column and returned with a card
\* left that a further sweep would move
C32_Witness ==
    /\ ret.op = "autoComplete"
    /\ ret.result = TRUE
    /\ \E s \in TableauIds : Len(stacks[s]) < Len(dealt[s])
    /\ findAutoCompletableCards(W) # <<>>


\* C33: in every reachable state every tableau column consists of zero or more
\* face-down cards at the bottom followed by face-up cards that form a valid run
\* (alternating colour, rank descending by exactly 1).
C33_ColumnsAreRuns ==
    \A s \in TableauIds :
        \A i \in 1..(Len(stacks[s]) - 1) :
            cards[stacks[s][i]].faceUp =>
                /\ cards[stacks[s][i + 1]].faceUp
                /\ Red(stacks[s][i + 1]) # Red(stacks[s][i])
                /\ RankNo(stacks[s][i + 1]) = RankNo(stacks[s][i]) - 1


\* C34: in every reachable state all cards in the stock are face-down and all
\* cards in the waste are face-up.
C34_StockDownWasteUp ==
    /\ \A i \in 1..Len(stacks[Stock]) : ~cards[stacks[Stock][i]].faceUp
    /\ \A i \in 1..Len(stacks[Waste]) : cards[stacks[Waste][i]].faceUp

\* a click on the empty stock has just recycled the waste: drawn cards are back on
\* the stock
C34_Witness ==
    /\ ret.op = "handleStockClick"
    /\ ret.result # <<>>
    /\ stacks[Waste] = <<>>
    /\ stacks[Stock] # <<>>


\* the state but for ret and steps
Table35 == <<stacks, cards, gameState>>

\* C35: executeCardFlip on a face-down card turns it face-up, records one card_flip
\* move and returns true; on a face-up card it returns false and changes nothing.
C35_FlipRecordsAlways ==
    [][ret'.op = "executeCardFlip" =>
        LET c == ret'.args[1] IN
        IF cards[c].faceUp
        THEN ret'.result = FALSE /\ Table35' = Table35
        ELSE /\ ret'.result = TRUE
             /\ cards'[c].faceUp
             /\ stacks' = stacks
             /\ gameState'.moves = gameState.moves + 1
             /\ gameState'.moveHistory # <<>>
             /\ gameState'.moveHistory[Len(gameState'.moveHistory)].type = "card_flip"]_vars


\* C36: after any sequence of recordMove and undoLastMove calls since the last
\* reset the move count is never negative, the history never holds more records
\* than the move count, and the records of a non-empty history carry consecutive
\* increasing moveNumbers, the newest one equal to the move count.
C36_HistoryNumbering ==
    LET h == gameState.moveHistory IN
    /\ gameState.moves >= 0
    /\ Len(h) <= gameState.moves
    /\ \A i \in 1..(Len(h) - 1) : h[i + 1].moveNumber = h[i].moveNumber + 1
    /\ h # <<>> => h[Len(h)].moveNumber = gameState.moves

\* 101 records and an undo: the history has lost its oldest record to the limit
\* and its newest to the undo
C36_Witness ==
    /\ ret.op = "undoLastMove"
    /\ ret.result # <<>>
    /\ gameState.moves = 100
    /\ Len(gameState.moveHistory) = 99
    /\ gameState.moveHistory[1].moveNumber = 2


\* C37: invoking executeAutoComplete repeatedly, with no other command in between,
\* reaches after finitely many calls a call that returns false. The call is a
\* function of the table and the game state, so a call that returns true has
\* changed one of them: after one that changed nothing every later call returns
\* true as well.
C37_TrueCallMakesProgress ==
    [][(ret'.op = "executeAutoComplete" /\ ret'.result = TRUE) =>
          <<stacks', cards', gameState'>> # <<stacks, cards, gameState>>]_vars


\* C38: restartGame, invoked while a deck exists, raises no error and leaves the
\* game playing on a fresh deal (tableau columns of 1..7 cards, 24 cards in the
\* stock) with an empty move history
C38_RestartDealsAfresh ==
    [][(ret'.op = "restartGame" /\ deckExists(W)) =>
          /\ ret'.result = "returned"
          /\ isPlaying(gameState')
          /\ \A i \in 1..TABLEAU_COLUMNS : Len(stacks'[Tableaus[i]]) = i
          /\ Len(stacks'[Stock]) = TOTAL_CARDS - 28
          /\ gameState'.moveHistory = <<>>]_vars

\* C39: a paused game stays paused, and so not playing, through every event
\* other than togglePause or the start of another game
C39_PauseHolds ==
    [][(gameState.isPaused /\ ret'.op \notin {"togglePause", "newGame", "restartGame"}) =>
          (gameState'.isPaused /\ ~isPlaying(gameState'))]_vars

\* C40: when onGameComplete goes on after its await in a game that was started
\* while it waited, the new game stays in the playing state and no win is counted
C40_NewGameSurvivesVictory ==
    [][(ret.op = "newGame" /\ victoryPending > 0 /\ ret'.op = "onGameComplete") =>
          (isPlaying(gameState') /\ gameState'.gamesWon = gameState.gamesWon)]_vars

=============================================================================
